---- MODULE Spec2Model ----
(***************************************************************************)
(* Model of the shyaml-rs path-addressable tree engine: dot-path           *)
(* splitting and index resolution (yaml/path.rs), the tag parser (tag.rs), *)
(* get / set / del at a path (yaml/query.rs, yaml/mutation.rs) and the     *)
(* overlay merge (yaml/merge.rs).                                          *)
(*                                                                         *)
(* Text is modelled as a sequence of one-character strings, so that the    *)
(* character loops of split_path and parse_tag are modelled as written.    *)
(* Error messages are sequences of text fragments in the order in which    *)
(* the format string lays them out.                                        *)
(***************************************************************************)
EXTENDS Integers, Sequences, FiniteSets, TLC

VARIABLES
    doc,        \* the document value the command chain is working on
    cmd,        \* the command (or function call) last run, with its inputs
    out,        \* what that command returned: an Ok value or an Err
    steps,      \* number of commands run so far
    chain_len,  \* number of commands in the ';'-separated chain
    stdout,     \* the documents written to standard output, in order
    overflow_checks  \* whether the build panics on integer overflow (the
                     \* default of the dev profile) or wraps (release)

vars == <<doc, cmd, out, steps, chain_len, stdout, overflow_checks>>

(***************************************************************************)
(* Option and Result                                                       *)
(***************************************************************************)
None == [some |-> FALSE]
Some(x) == [some |-> TRUE, v |-> x]

Ok(v) == [ok |-> TRUE, val |-> v]
Err(kind, msg) == [ok |-> FALSE, kind |-> kind, msg |-> msg]

\* a panic unwinds through every caller: no Ok and no Error value is returned
Panic(msg) == [ok |-> FALSE, kind |-> "panic", msg |-> msg]

(***************************************************************************)
(* fyaml::Value                                                            *)
(***************************************************************************)
Null == [t |-> "null"]
Bool(b) == [t |-> "bool", b |-> b]
Number(n) == [t |-> "number", n |-> n]
String(s) == [t |-> "string", s |-> s]
Sequence(items) == [t |-> "sequence", items |-> items]
Mapping(entries) == [t |-> "mapping", entries |-> entries]
Tagged(tag, value) == [t |-> "tagged", tag |-> tag, value |-> value]

\* IndexMap<Value, Value>: a sequence of <<key, value>> pairs with unique keys
map_position(entries, key) ==
    IF \E i \in 1..Len(entries) : entries[i][1] = key
    THEN CHOOSE i \in 1..Len(entries) :
            /\ entries[i][1] = key
            /\ \A j \in 1..(i - 1) : entries[j][1] # key
    ELSE 0

map_contains_key(entries, key) == map_position(entries, key) # 0

map_get(entries, key) == entries[map_position(entries, key)][2]

\* mutant: an existing key is removed and inserted again at the end
map_insert_at_end(entries, key, value) ==
    Append(SelectSeq(entries, LAMBDA e : e[1] # key), <<key, value>>)

\* mutant: the entry is pushed without looking for the key
map_insert_push(entries, key, value) == Append(entries, <<key, value>>)

\* insert: an existing key keeps its position, a new key goes last
map_insert(entries, key, value) ==
    IF map_contains_key(entries, key)
    THEN [entries EXCEPT ![map_position(entries, key)] = <<key, value>>]
    ELSE Append(entries, <<key, value>>)

\* mutant: swap_remove, the last entry takes the removed entry's place
map_swap_remove(entries, key) ==
    LET p == map_position(entries, key)
    IN  IF p = 0 THEN entries
        ELSE [i \in 1..(Len(entries) - 1) |->
                 IF i = p THEN entries[Len(entries)] ELSE entries[i]]

\* shift_remove: the entries after the removed one move up, order kept
map_shift_remove(entries, key) ==
    LET p == map_position(entries, key)
    IN  IF p = 0 THEN entries
        ELSE [i \in 1..(Len(entries) - 1) |->
                 IF i < p THEN entries[i] ELSE entries[i + 1]]

\* Vec::remove(pos), pos counted from 1 here
vec_remove(s, pos) ==
    [i \in 1..(Len(s) - 1) |-> IF i < pos THEN s[i] ELSE s[i + 1]]

\* Vec::contains
vec_contains(s, x) == \E i \in 1..Len(s) : s[i] = x

\* Iterator::position, 0 for None, else the first index (from 1)
vec_position(s, x) ==
    IF vec_contains(s, x)
    THEN CHOOSE i \in 1..Len(s) : s[i] = x /\ \A j \in 1..(i - 1) : s[j] # x
    ELSE 0

(***************************************************************************)
(* Text helpers                                                            *)
(***************************************************************************)
starts_with(s, prefix) ==
    /\ Len(s) >= Len(prefix)
    /\ SubSeq(s, 1, Len(prefix)) = prefix

\* str::find(char): index (from 1) of the first occurrence, 0 for None
find_char(s, c) ==
    IF \E i \in 1..Len(s) : s[i] = c
    THEN CHOOSE i \in 1..Len(s) : s[i] = c /\ \A j \in 1..(i - 1) : s[j] # c
    ELSE 0

is_whitespace(c) == c \in {" ", "\t", "\n"}

RECURSIVE trim_start(_)
trim_start(s) ==
    IF s # <<>> /\ is_whitespace(Head(s)) THEN trim_start(Tail(s)) ELSE s

RECURSIVE trim_end(_)
trim_end(s) ==
    IF s # <<>> /\ is_whitespace(s[Len(s)])
    THEN trim_end(SubSeq(s, 1, Len(s) - 1))
    ELSE s

trim(s) == trim_end(trim_start(s))

\* [&str]::join(sep)
RECURSIVE join(_, _)
join(parts, sep) ==
    IF parts = <<>> THEN <<>>
    ELSE IF Len(parts) = 1 THEN parts[1]
    ELSE parts[1] \o sep \o join(Tail(parts), sep)

\* the text s occurs in the message msg (a sequence of fragments) as a run
contains_text(msg, s) ==
    \E i \in 1..(Len(msg) - Len(s) + 1) : SubSeq(msg, i, i + Len(s) - 1) = s

(***************************************************************************)
(* tag.rs                                                                  *)
(***************************************************************************)
MergeOp_Replace == "replace"
MergeOp_Append == "append"
MergeOp_Prepend == "prepend"

S_merge == <<"m", "e", "r", "g", "e", ":">>
S_replace == <<"r", "e", "p", "l", "a", "c", "e">>
S_append == <<"a", "p", "p", "e", "n", "d">>
S_prepend == <<"p", "r", "e", "p", "e", "n", "d">>

\* impl Display for MergeOp
merge_op_display(op) ==
    CASE op = MergeOp_Replace -> S_replace
      [] op = MergeOp_Append -> S_append
      [] op = MergeOp_Prepend -> S_prepend

\* impl Display for TagError
tag_error_display(e) ==
    CASE e.kind = "UnknownOperation" ->
            <<"unknown merge operation '">> \o e.op
                \o <<"': expected replace, append, or prepend">>
      [] e.kind = "MultipleMergeDirectives" ->
            <<"multiple merge directives in tag: only one merge directive allowed per node">>
      [] e.kind = "UnexpectedArguments" ->
            <<"unexpected arguments for merge operation '">> \o e.op
                \o <<"': current operations do not accept arguments">>
      [] e.kind = "EmptyTag" -> <<"empty tag">>

TagErr(kind, op) == [ok |-> FALSE, kind |-> kind, op |-> op]

\* mutant: every ';' splits, parentheses or not
RECURSIVE split_tag_loop_flat(_, _, _, _, _)
split_tag_loop_flat(content, i, start, paren_depth, parts) ==
    IF i > Len(content)
    THEN IF start <= Len(content)
         THEN Append(parts, SubSeq(content, start, Len(content)))
         ELSE parts
    ELSE IF content[i] = ";"
         THEN split_tag_loop_flat(content, i + 1, i + 1, paren_depth,
                                  IF start < i
                                  THEN Append(parts, SubSeq(content, start, i - 1))
                                  ELSE parts)
         ELSE split_tag_loop_flat(content, i + 1, start, paren_depth, parts)

\* the char_indices loop of split_tag_parts; i and start count from 1
RECURSIVE split_tag_loop(_, _, _, _, _)
split_tag_loop(content, i, start, paren_depth, parts) ==
    IF i > Len(content)
    THEN IF start <= Len(content)
         THEN Append(parts, SubSeq(content, start, Len(content)))
         ELSE parts
    ELSE LET c == content[i]
         IN  CASE c = "(" ->
                    split_tag_loop(content, i + 1, start, paren_depth + 1, parts)
               [] c = ")" ->
                    split_tag_loop(content, i + 1, start,
                                   IF paren_depth = 0 THEN 0 ELSE paren_depth - 1,
                                   parts)
               [] c = ";" /\ paren_depth = 0 ->
                    split_tag_loop(content, i + 1, i + 1, paren_depth,
                                   IF start < i
                                   THEN Append(parts, SubSeq(content, start, i - 1))
                                   ELSE parts)
               [] OTHER ->
                    split_tag_loop(content, i + 1, start, paren_depth, parts)

split_tag_parts(content) == split_tag_loop(content, 1, 1, 0, <<>>)

\* mutant: an operation that is not known makes the part an ordinary tag part
parse_merge_part_lenient(part) ==
    IF ~starts_with(part, S_merge)
    THEN Ok(None)
    ELSE LET merge_content == SubSeq(part, Len(S_merge) + 1, Len(part))
             paren_pos == find_char(merge_content, "(")
         IN  IF paren_pos # 0
             THEN TagErr("UnexpectedArguments",
                         SubSeq(merge_content, 1, paren_pos - 1))
             ELSE CASE merge_content = S_replace -> Ok(Some(MergeOp_Replace))
                    [] merge_content = S_append -> Ok(Some(MergeOp_Append))
                    [] merge_content = S_prepend -> Ok(Some(MergeOp_Prepend))
                    [] OTHER -> Ok(None)

parse_merge_part(part) ==
    IF ~starts_with(part, S_merge)
    THEN Ok(None)
    ELSE LET merge_content == SubSeq(part, Len(S_merge) + 1, Len(part))
             paren_pos == find_char(merge_content, "(")
         IN  IF paren_pos # 0
             THEN TagErr("UnexpectedArguments",
                         SubSeq(merge_content, 1, paren_pos - 1))
             ELSE CASE merge_content = S_replace -> Ok(Some(MergeOp_Replace))
                    [] merge_content = S_append -> Ok(Some(MergeOp_Append))
                    [] merge_content = S_prepend -> Ok(Some(MergeOp_Prepend))
                    [] OTHER -> TagErr("UnknownOperation", merge_content)

\* the `for part in &parts` loop of parse_tag
RECURSIVE parse_tag_loop(_, _, _, _)
parse_tag_loop(parts, i, merge_op, remaining_parts) ==
    IF i > Len(parts)
    THEN Ok([remaining |-> IF remaining_parts = <<>>
                           THEN None
                           ELSE Some(<<"!">> \o join(remaining_parts, <<";">>)),
             merge_op |-> merge_op])
    ELSE LET r == parse_merge_part(parts[i])
         IN  IF ~r.ok THEN r
             ELSE IF r.val.some
             THEN IF merge_op.some
                  THEN TagErr("MultipleMergeDirectives", <<>>)
                  ELSE parse_tag_loop(parts, i + 1, r.val, remaining_parts)
             ELSE parse_tag_loop(parts, i + 1, merge_op,
                                 Append(remaining_parts, parts[i]))

parse_tag(tag0) ==
    LET tag == trim(tag0)
    IN  IF tag = <<>> THEN TagErr("EmptyTag", <<>>)
        ELSE LET tag_content == IF Head(tag) = "!" THEN Tail(tag) ELSE tag
             IN  IF tag_content = <<>> THEN TagErr("EmptyTag", <<>>)
                 ELSE parse_tag_loop(split_tag_parts(tag_content), 1, None, <<>>)

(***************************************************************************)
(* yaml/path.rs                                                            *)
(***************************************************************************)
\* mutant: a backslash escapes a '.' only, before another character it stays
RECURSIVE split_path_loop_dot_only(_, _, _, _, _)
split_path_loop_dot_only(path, i, escaped, element, elements) ==
    IF i > Len(path)
    THEN Append(elements, element)
    ELSE LET c == path[i]
         IN  IF escaped
             THEN split_path_loop_dot_only(path, i + 1, FALSE,
                                           IF c = "." THEN Append(element, c)
                                           ELSE element \o <<"\\", c>>,
                                           elements)
             ELSE CASE c = "\\" ->
                        split_path_loop_dot_only(path, i + 1, TRUE, element, elements)
                    [] c = "." ->
                        split_path_loop_dot_only(path, i + 1, FALSE, <<>>,
                                                 Append(elements, element))
                    [] OTHER ->
                        split_path_loop_dot_only(path, i + 1, FALSE,
                                                 Append(element, c), elements)

\* mutant: an empty segment is not kept
RECURSIVE split_path_loop_drop_empty(_, _, _, _, _)
split_path_loop_drop_empty(path, i, escaped, element, elements) ==
    IF i > Len(path)
    THEN IF element = <<>> /\ elements # <<>> THEN elements
         ELSE Append(elements, element)
    ELSE LET c == path[i]
         IN  IF escaped
             THEN split_path_loop_drop_empty(path, i + 1, FALSE,
                                             Append(element, c), elements)
             ELSE CASE c = "\\" ->
                        split_path_loop_drop_empty(path, i + 1, TRUE, element,
                                                   elements)
                    [] c = "." ->
                        split_path_loop_drop_empty(path, i + 1, FALSE, <<>>,
                                                   IF element = <<>> THEN elements
                                                   ELSE Append(elements, element))
                    [] OTHER ->
                        split_path_loop_drop_empty(path, i + 1, FALSE,
                                                   Append(element, c), elements)

\* the `for c in path.chars()` loop of split_path
RECURSIVE split_path_loop(_, _, _, _, _)
split_path_loop(path, i, escaped, element, elements) ==
    IF i > Len(path)
    THEN Append(elements, element)
    ELSE LET c == path[i]
         IN  IF escaped
             THEN split_path_loop(path, i + 1, FALSE, Append(element, c), elements)
             ELSE CASE c = "\\" ->
                        split_path_loop(path, i + 1, TRUE, element, elements)
                    [] c = "." ->
                        split_path_loop(path, i + 1, FALSE, <<>>,
                                        Append(elements, element))
                    [] OTHER ->
                        split_path_loop(path, i + 1, FALSE, Append(element, c),
                                        elements)

split_path(path) == split_path_loop(path, 1, FALSE, <<>>, <<>>)

Digits == <<"0", "1", "2", "3", "4", "5", "6", "7", "8", "9">>
is_digit(c) == \E d \in 1..10 : Digits[d] = c
digit_value(c) == (CHOOSE d \in 1..10 : Digits[d] = c) - 1

\* the signed integers resolve_index parses into are i64 in the source; the
\* model keeps the same parser over a narrower two's-complement range
IntBits == 15
IntMin == -(2 ^ IntBits)
IntMax == (2 ^ IntBits) - 1

RECURSIVE digits_value(_, _)
digits_value(s, acc) ==
    IF s = <<>> THEN acc
    ELSE IF acc > IntMax + 1 THEN acc
    ELSE digits_value(Tail(s), acc * 10 + digit_value(Head(s)))

\* str::parse::<i64>(): optional sign, at least one digit, digits only, no
\* overflow
parse_int(s) ==
    LET neg == s # <<>> /\ Head(s) = "-"
        signed == s # <<>> /\ Head(s) \in {"-", "+"}
        body == IF signed THEN Tail(s) ELSE s
    IN  IF body = <<>> \/ \E i \in 1..Len(body) : ~is_digit(body[i])
        THEN None
        ELSE LET m == digits_value(body, 0)
             IN  IF neg
                 THEN IF m > -IntMin THEN None ELSE Some(-m)
                 ELSE IF m > IntMax THEN None ELSE Some(m)

\* Display of an integer
RECURSIVE nat_display(_)
nat_display(n) ==
    IF n < 10 THEN <<Digits[n + 1]>>
    ELSE nat_display(n \div 10) \o <<Digits[(n % 10) + 1]>>

int_display(n) == IF n < 0 THEN <<"-">> \o nat_display(-n) ELSE nat_display(n)

out_of_range_msg(full_path, idx, len) ==
    <<"invalid path '">> \o full_path \o <<"', index ">> \o int_display(idx)
        \o <<" is out of range (">> \o nat_display(len)
        \o <<" elements in sequence).">>

\* resolve_index returns the index counted from 0, as the source does
resolve_index(part, len, full_path) ==
    LET p == parse_int(part)
    IN  IF ~p.some
        THEN Err("Path", <<"invalid path '">> \o full_path
                           \o <<"', non-integer index '">> \o part
                           \o <<"' provided on a sequence.">>)
        ELSE LET idx == p.v
                 \* (-idx) as usize: without overflow checks -IntMin wraps
                 \* back to IntMin, whose unsigned reading is 2^IntBits
                 abs_idx == IF idx = IntMin THEN 2 ^ IntBits ELSE -idx
             IN  IF idx = IntMin /\ overflow_checks
                 THEN Panic(<<"attempt to negate with overflow">>)
                 ELSE IF idx < 0 /\ abs_idx > len
                 THEN Err("Path", out_of_range_msg(full_path, idx, len))
                 ELSE LET resolved == IF idx < 0 THEN len - abs_idx ELSE idx
                      IN  IF resolved >= len
                          THEN Err("Path", out_of_range_msg(full_path, idx, len))
                          ELSE Ok(resolved)

(***************************************************************************)
(* yaml/query.rs: value-based path navigation                              *)
(***************************************************************************)
missing_key_msg(path, part) ==
    <<"invalid path '">> \o path \o <<"', missing key '">> \o part
        \o <<"' in struct.">>

traverse_scalar_msg(path, part) ==
    <<"invalid path '">> \o path \o <<"', cannot traverse scalar at '">>
        \o part \o <<"'.">>

\* mutant: the Null-key fallback of an empty segment is tried first
lookup_in_map_null_first(entries, part, path) ==
    IF part = <<>> /\ map_contains_key(entries, Null)
    THEN Ok(map_get(entries, Null))
    ELSE IF map_contains_key(entries, String(part))
    THEN Ok(map_get(entries, String(part)))
    ELSE Err("Path", missing_key_msg(path, part))

lookup_in_map(entries, part, path) ==
    IF map_contains_key(entries, String(part))
    THEN Ok(map_get(entries, String(part)))
    ELSE IF part = <<>> /\ map_contains_key(entries, Null)
    THEN Ok(map_get(entries, Null))
    ELSE Err("Path", missing_key_msg(path, part))

\* one step of the loop of get_at_path on an untagged container
get_step(container, part, path) ==
    CASE container.t = "mapping" -> lookup_in_map(container.entries, part, path)
      [] container.t = "sequence" ->
            LET r == resolve_index(part, Len(container.items), path)
            IN  IF r.ok THEN Ok(container.items[r.val + 1]) ELSE r
      [] OTHER -> Err("Path", traverse_scalar_msg(path, part))

\* the `for part in &parts` loop of get_at_path
RECURSIVE get_at_parts(_, _, _, _)
get_at_parts(current, parts, i, path) ==
    IF i > Len(parts) THEN Ok(current)
    ELSE LET r == IF current.t = "tagged"
                  THEN get_step(current.value, parts[i], path)
                  ELSE get_step(current, parts[i], path)
         IN  IF r.ok THEN get_at_parts(r.val, parts, i + 1, path) ELSE r

\* path is an Option<&str>
get_at_path(value, path) ==
    IF ~path.some THEN Ok(value)
    ELSE get_at_parts(value, split_path(path.v), 1, path.v)

get_value(path, value) == get_at_path(value, path)

(***************************************************************************)
(* yaml/mutation.rs                                                        *)
(***************************************************************************)
\* mutant: writing the index just past the end of a sequence appends
RECURSIVE set_at_auto_extend(_, _, _, _, _)
set_at_auto_extend(current, parts, i, value, path) ==
    LET part == parts[i]
        is_last == (i = Len(parts))
    IN  IF is_last
        THEN CASE current.t = "mapping" ->
                    [res |-> Ok(<<>>),
                     tree |-> Mapping(map_insert(current.entries, String(part), value))]
               [] current.t = "sequence" ->
                    LET r == resolve_index(part, Len(current.items) + 1, path)
                    IN  IF r.ok
                        THEN [res |-> Ok(<<>>),
                              tree |-> Sequence(
                                  IF r.val = Len(current.items)
                                  THEN Append(current.items, value)
                                  ELSE [current.items EXCEPT ![r.val + 1] = value])]
                        ELSE [res |-> r, tree |-> current]
               [] OTHER ->
                    [res |-> Err("Path", <<"invalid path '">> \o path
                                    \o <<"', cannot set value on scalar at '">>
                                    \o part \o <<"'.">>),
                     tree |-> current]
        ELSE CASE current.t = "mapping" ->
                    LET key == String(part)
                        created == IF ~map_contains_key(current.entries, key)
                                   THEN map_insert(current.entries, key, Mapping(<<>>))
                                   ELSE current.entries
                        sub == set_at_auto_extend(map_get(created, key), parts,
                                                  i + 1, value, path)
                    IN  [res |-> sub.res,
                         tree |-> Mapping(map_insert(created, key, sub.tree))]
               [] current.t = "sequence" ->
                    LET r == resolve_index(part, Len(current.items), path)
                    IN  IF r.ok
                        THEN LET sub == set_at_auto_extend(current.items[r.val + 1],
                                                           parts, i + 1, value, path)
                             IN  [res |-> sub.res,
                                  tree |-> Sequence([current.items EXCEPT
                                                        ![r.val + 1] = sub.tree])]
                        ELSE [res |-> r, tree |-> current]
               [] OTHER ->
                    [res |-> Err("Path", traverse_scalar_msg(path, part)),
                     tree |-> current]

\* The loop of set_value_at_path walks a mutable reference down the tree.
\* set_at is that loop from segment i with `current` the referenced node; it
\* returns the outcome and the node as the loop leaves it, so that what was
\* written before a failure is part of the returned tree.
RECURSIVE set_at(_, _, _, _, _)
set_at(current, parts, i, value, path) ==
    LET part == parts[i]
        is_last == (i = Len(parts))
    IN  IF is_last
        THEN CASE current.t = "mapping" ->
                    [res |-> Ok(<<>>),
                     tree |-> Mapping(map_insert(current.entries, String(part), value))]
               [] current.t = "sequence" ->
                    LET r == resolve_index(part, Len(current.items), path)
                    IN  IF r.ok
                        THEN [res |-> Ok(<<>>),
                              tree |-> Sequence([current.items EXCEPT ![r.val + 1] = value])]
                        ELSE [res |-> r, tree |-> current]
               [] OTHER ->
                    [res |-> Err("Path", <<"invalid path '">> \o path
                                    \o <<"', cannot set value on scalar at '">>
                                    \o part \o <<"'.">>),
                     tree |-> current]
        ELSE CASE current.t = "mapping" ->
                    LET key == String(part)
                        created == IF ~map_contains_key(current.entries, key)
                                   THEN map_insert(current.entries, key, Mapping(<<>>))
                                   ELSE current.entries
                        sub == set_at(map_get(created, key), parts, i + 1, value, path)
                    IN  [res |-> sub.res,
                         tree |-> Mapping(map_insert(created, key, sub.tree))]
               [] current.t = "sequence" ->
                    LET r == resolve_index(part, Len(current.items), path)
                    IN  IF r.ok
                        THEN LET sub == set_at(current.items[r.val + 1], parts,
                                               i + 1, value, path)
                             IN  [res |-> sub.res,
                                  tree |-> Sequence([current.items EXCEPT
                                                        ![r.val + 1] = sub.tree])]
                        ELSE [res |-> r, tree |-> current]
               [] OTHER ->
                    [res |-> Err("Path", traverse_scalar_msg(path, part)),
                     tree |-> current]

\* returns .res (Ok(()) or Err) and .tree, the root after the call
set_value_at_path(root, path, value) ==
    LET path_parts == split_path(path)
    IN  IF path_parts = <<>>
        THEN [res |-> Err("Path", <<"Empty path">>), tree |-> root]
        ELSE set_at(root, path_parts, 1, value, path)

\* mutant: a Null base is not replaced by an empty mapping
set_value_keep_null(key, new_value, base0) ==
    LET r == set_value_at_path(base0, key, new_value)
    IN  IF r.res.ok THEN Ok(r.tree) ELSE r.res

set_value(key, new_value, base0) ==
    LET base == IF base0 = Null THEN Mapping(<<>>) ELSE base0
        r == set_value_at_path(base, key, new_value)
    IN  IF r.res.ok THEN Ok(r.tree) ELSE r.res

\* mutant: a mapping entry on the way is taken out of its mapping and put
\* back only when the rest of the walk succeeds
RECURSIVE del_at_take(_, _, _, _)
del_at_take(current, parts, i, path) ==
    LET part == parts[i]
        is_last == (i = Len(parts))
    IN  IF is_last
        THEN CASE current.t = "mapping" ->
                    IF ~map_contains_key(current.entries, String(part))
                    THEN [res |-> Err("Path", missing_key_msg(path, part)),
                          tree |-> current]
                    ELSE [res |-> Ok(<<>>),
                          tree |-> Mapping(map_shift_remove(current.entries,
                                                            String(part)))]
               [] current.t = "sequence" ->
                    LET r == resolve_index(part, Len(current.items), path)
                    IN  IF r.ok
                        THEN [res |-> Ok(<<>>),
                              tree |-> Sequence(vec_remove(current.items, r.val + 1))]
                        ELSE [res |-> r, tree |-> current]
               [] OTHER ->
                    [res |-> Err("Path", <<"invalid path '">> \o path
                                    \o <<"', cannot delete from scalar.">>),
                     tree |-> current]
        ELSE CASE current.t = "mapping" ->
                    LET key == String(part)
                    IN  IF ~map_contains_key(current.entries, key)
                        THEN [res |-> Err("Path", missing_key_msg(path, part)),
                              tree |-> current]
                        ELSE LET sub == del_at_take(map_get(current.entries, key),
                                                    parts, i + 1, path)
                             IN  [res |-> sub.res,
                                  tree |-> IF sub.res.ok
                                           THEN Mapping(map_insert(current.entries,
                                                                   key, sub.tree))
                                           ELSE Mapping(map_shift_remove(
                                                            current.entries, key))]
               [] current.t = "sequence" ->
                    LET r == resolve_index(part, Len(current.items), path)
                    IN  IF r.ok
                        THEN LET sub == del_at_take(current.items[r.val + 1], parts,
                                                    i + 1, path)
                             IN  [res |-> sub.res,
                                  tree |-> Sequence([current.items EXCEPT
                                                        ![r.val + 1] = sub.tree])]
                        ELSE [res |-> r, tree |-> current]
               [] OTHER ->
                    [res |-> Err("Path", traverse_scalar_msg(path, part)),
                     tree |-> current]

\* the loop of del_at_path from segment i, as set_at
RECURSIVE del_at(_, _, _, _)
del_at(current, parts, i, path) ==
    LET part == parts[i]
        is_last == (i = Len(parts))
    IN  IF is_last
        THEN CASE current.t = "mapping" ->
                    IF ~map_contains_key(current.entries, String(part))
                    THEN [res |-> Err("Path", missing_key_msg(path, part)),
                          tree |-> current]
                    ELSE [res |-> Ok(<<>>),
                          tree |-> Mapping(map_shift_remove(current.entries,
                                                            String(part)))]
               [] current.t = "sequence" ->
                    LET r == resolve_index(part, Len(current.items), path)
                    IN  IF r.ok
                        THEN [res |-> Ok(<<>>),
                              tree |-> Sequence(vec_remove(current.items, r.val + 1))]
                        ELSE [res |-> r, tree |-> current]
               [] OTHER ->
                    [res |-> Err("Path", <<"invalid path '">> \o path
                                    \o <<"', cannot delete from scalar.">>),
                     tree |-> current]
        ELSE CASE current.t = "mapping" ->
                    LET key == String(part)
                    IN  IF ~map_contains_key(current.entries, key)
                        THEN [res |-> Err("Path", missing_key_msg(path, part)),
                              tree |-> current]
                        ELSE LET sub == del_at(map_get(current.entries, key),
                                               parts, i + 1, path)
                             IN  [res |-> sub.res,
                                  tree |-> Mapping(map_insert(current.entries, key,
                                                              sub.tree))]
               [] current.t = "sequence" ->
                    LET r == resolve_index(part, Len(current.items), path)
                    IN  IF r.ok
                        THEN LET sub == del_at(current.items[r.val + 1], parts,
                                               i + 1, path)
                             IN  [res |-> sub.res,
                                  tree |-> Sequence([current.items EXCEPT
                                                        ![r.val + 1] = sub.tree])]
                        ELSE [res |-> r, tree |-> current]
               [] OTHER ->
                    [res |-> Err("Path", traverse_scalar_msg(path, part)),
                     tree |-> current]

del_at_path(root, path) ==
    LET path_parts == split_path(path)
    IN  IF path_parts = <<>> \/ (Len(path_parts) = 1 /\ path_parts[1] = <<>>)
        THEN [res |-> Err("Path", <<"Empty path">>), tree |-> root]
        ELSE del_at(root, path_parts, 1, path)

del(key, base) ==
    IF base = Null
    THEN Err("Path", <<"Cannot delete from empty document">>)
    ELSE LET r == del_at_path(base, key)
         IN  IF r.res.ok THEN Ok(r.tree) ELSE r.res

(***************************************************************************)
(* yaml/merge.rs                                                           *)
(***************************************************************************)
MergePolicy_Merge == "Merge"
MergePolicy_Replace == "Replace"
MergePolicy_Prepend == "Prepend"

\* From<TagError> for Error
tag_error_to_error(e) == Err("Base", tag_error_display(e))

\* mutant: what remains of the tag is not put back on the value
strip_merge_part_drop_tag(parsed, inner) ==
    IF ~parsed.ok THEN tag_error_to_error(parsed)
    ELSE Ok([op |-> parsed.val.merge_op, value |-> inner])

\* the Tagged arm of extract_merge_directive once the tag is parsed: `?` on
\* the parse, then the value under what remains of the tag
strip_merge_part(parsed, inner) ==
    IF ~parsed.ok THEN tag_error_to_error(parsed)
    ELSE Ok([op |-> parsed.val.merge_op,
             value |-> IF parsed.val.remaining.some
                       THEN Tagged(parsed.val.remaining.v, inner)
                       ELSE inner])

\* Ok carries the pair (Option<MergeOp>, stripped value) as a record
extract_merge_directive(value) ==
    IF value.t = "tagged"
    THEN strip_merge_part(parse_tag(value.tag), value.value)
    ELSE Ok([op |-> None, value |-> value])

value_type_name(value) == value.t

\* the match that looks through one Tagged layer
untag(value) == IF value.t = "tagged" THEN value.value ELSE value

location(path) ==
    IF path = <<>> THEN <<"at root">> ELSE <<"at '">> \o path \o <<"'">>

\* mutant: the remaining tag is not looked through
validate_merge_op_for_type_no_untag(op, value, path) ==
    IF ~(op \in {MergeOp_Append, MergeOp_Prepend}) THEN Ok(<<>>)
    ELSE IF value.t = "sequence" THEN Ok(<<>>)
         ELSE Err("Type", <<"Invalid merge directive ">> \o location(path)
                            \o <<": !merge:">> \o merge_op_display(op)
                            \o <<" can only be used on sequences, got ",
                                 value_type_name(value)>>)

validate_merge_op_for_type(op, value, path) ==
    IF ~(op \in {MergeOp_Append, MergeOp_Prepend}) THEN Ok(<<>>)
    ELSE LET inner == untag(value)
         IN  IF inner.t = "sequence" THEN Ok(<<>>)
             ELSE Err("Type", <<"Invalid merge directive ">> \o location(path)
                                \o <<": !merge:">> \o merge_op_display(op)
                                \o <<" can only be used on sequences, got ",
                                     value_type_name(inner)>>)

\* format!("{:?}", key) for a key that is not a string
debug_fmt(key) ==
    CASE key.t = "null" -> <<"N", "u", "l", "l">>
      [] key.t = "bool" -> <<"B", "o", "o", "l", "(">>
                              \o (IF key.b THEN <<"t", "r", "u", "e">>
                                           ELSE <<"f", "a", "l", "s", "e">>)
                              \o <<")">>
      [] key.t = "number" -> <<"N", "u", "m", "b", "e", "r", "(">>
                                \o int_display(key.n) \o <<")">>
      [] OTHER -> <<"?">>

key_str(key) == IF key.t = "string" THEN key.s ELSE debug_fmt(key)

\* mutant: the parent path is dropped
new_path_key_only(path, key) == key_str(key)

new_path(path, key) ==
    IF path = <<>> THEN key_str(key) ELSE path \o <<".">> \o key_str(key)

\* mutant: only an untagged Null deletes the key
is_null_untagged_only(overlay_value) == overlay_value.t = "null"

is_null(overlay_value) ==
    CASE overlay_value.t = "null" -> TRUE
      [] overlay_value.t = "tagged" -> overlay_value.value.t = "null"
      [] OTHER -> FALSE

is_scalar(value) == value.t \in {"bool", "number", "string"}

\* mutant: every base element is pushed, equal to a held one or not
RECURSIVE prepend_loop_no_dedup(_, _, _)
prepend_loop_no_dedup(result, base_seq, i) ==
    IF i > Len(base_seq) THEN result
    ELSE prepend_loop_no_dedup(Append(result, base_seq[i]), base_seq, i + 1)

\* the Prepend arm's loop: push each base element the result does not hold
RECURSIVE prepend_loop(_, _, _)
prepend_loop(result, base_seq, i) ==
    IF i > Len(base_seq) THEN result
    ELSE prepend_loop(IF ~vec_contains(result, base_seq[i])
                      THEN Append(result, base_seq[i])
                      ELSE result,
                      base_seq, i + 1)

\* mutant: an overlay element the result already holds is left where it is
RECURSIVE seq_merge_loop_keep_place(_, _, _)
seq_merge_loop_keep_place(result, overlay_seq, i) ==
    IF i > Len(overlay_seq) THEN result
    ELSE seq_merge_loop_keep_place(IF vec_contains(result, overlay_seq[i])
                                   THEN result
                                   ELSE Append(result, overlay_seq[i]),
                                   overlay_seq, i + 1)

\* mutant: each overlay element is pushed, nothing is removed
RECURSIVE seq_merge_loop_no_remove(_, _, _)
seq_merge_loop_no_remove(result, overlay_seq, i) ==
    IF i > Len(overlay_seq) THEN result
    ELSE seq_merge_loop_no_remove(Append(result, overlay_seq[i]), overlay_seq, i + 1)

\* the (Sequence, Sequence) arm's loop: move or push each overlay element
RECURSIVE seq_merge_loop(_, _, _)
seq_merge_loop(result, overlay_seq, i) ==
    IF i > Len(overlay_seq) THEN result
    ELSE LET elt == overlay_seq[i]
             pos == vec_position(result, elt)
         IN  seq_merge_loop(Append(IF pos # 0 THEN vec_remove(result, pos)
                                              ELSE result, elt),
                            overlay_seq, i + 1)

RECURSIVE merge_values(_, _, _, _)
RECURSIVE apply_policy(_, _, _, _, _)
RECURSIVE apply_default_merge(_, _, _, _)
RECURSIVE map_merge_loop(_, _, _, _, _)
RECURSIVE map_merge_insert(_, _, _, _, _, _)

\* mutant: the directive of a new key's value is validated against its shape
new_key_value_validated(e) ==
    IF ~e.ok THEN e
    ELSE IF e.val.op.some
              /\ ~validate_merge_op_for_type(e.val.op.v, e.val.value, <<>>).ok
    THEN validate_merge_op_for_type(e.val.op.v, e.val.value, <<>>)
    ELSE Ok(e.val.value)

\* the new-key branch of the loop: `let (_, stripped) =
\* extract_merge_directive(overlay_value)?; stripped`
new_key_value(e) == IF e.ok THEN Ok(e.val.value) ELSE e

\* the end of one turn of the loop: `?` on merged_value, then
\* result.insert(key.clone(), merged_value) and the next entry
map_merge_insert(merged_value, result, overlay_map, i, path, policies) ==
    IF ~merged_value.ok THEN merged_value
    ELSE map_merge_loop(map_insert(result, overlay_map[i][1], merged_value.val),
                        overlay_map, i + 1, path, policies)

\* the (Mapping, Mapping) arm's loop over the overlay entries; Ok carries the
\* entries of the result, the first failing entry's error ends the loop
map_merge_loop(result, overlay_map, i, path, policies) ==
    IF i > Len(overlay_map) THEN Ok(result)
    ELSE LET key == overlay_map[i][1]
             overlay_value == overlay_map[i][2]
         IN  IF is_null(overlay_value)
             THEN map_merge_loop(map_shift_remove(result, key), overlay_map,
                                 i + 1, path, policies)
             ELSE map_merge_insert(
                      IF map_contains_key(result, key)
                      THEN merge_values(map_get(result, key), overlay_value,
                                        new_path(path, key), policies)
                      ELSE new_key_value(extract_merge_directive(overlay_value)),
                      result, overlay_map, i, path, policies)

\* mutant: the values of the result lose their tags
mapping_result_untagged(r) ==
    IF r.ok
    THEN Ok(Mapping([i \in 1..Len(r.val) |-> <<r.val[i][1], untag(r.val[i][2])>>]))
    ELSE r

\* the end of the (Mapping, Mapping) arm: Ok(Value::Mapping(result)) unless
\* the loop returned an error
mapping_result(r) == IF r.ok THEN Ok(Mapping(r.val)) ELSE r

\* mutant: a null overlay wins over the base
apply_default_merge_null_wins(base, overlay, path, policies) ==
    LET overlay_inner == untag(overlay)
        base_inner == untag(base)
    IN  CASE overlay_inner.t = "null" -> Ok(overlay)
          [] base_inner.t = "null" /\ overlay_inner.t # "null" -> Ok(overlay)
          [] base_inner.t = "mapping" /\ overlay_inner.t = "mapping" ->
                mapping_result(map_merge_loop(base_inner.entries,
                                              overlay_inner.entries, 1, path,
                                              policies))
          [] base_inner.t = "sequence" /\ overlay_inner.t = "sequence" ->
                Ok(Sequence(seq_merge_loop(base_inner.items, overlay_inner.items, 1)))
          [] is_scalar(base_inner) /\ is_scalar(overlay_inner) -> Ok(overlay)
          [] OTHER ->
                Err("Type", <<"Type mismatch ">> \o location(path)
                              \o <<": cannot merge ", value_type_name(base_inner),
                                   " with ", value_type_name(overlay_inner)>>)

apply_default_merge(base, overlay, path, policies) ==
    LET overlay_inner == untag(overlay)
        base_inner == untag(base)
    IN  CASE base_inner.t = "null" /\ overlay_inner.t = "null" -> Ok(overlay)
          [] base_inner.t # "null" /\ overlay_inner.t = "null" -> Ok(base)
          [] base_inner.t = "null" /\ overlay_inner.t # "null" -> Ok(overlay)
          [] base_inner.t = "mapping" /\ overlay_inner.t = "mapping" ->
                mapping_result(map_merge_loop(base_inner.entries,
                                              overlay_inner.entries, 1, path,
                                              policies))
          [] base_inner.t = "sequence" /\ overlay_inner.t = "sequence" ->
                Ok(Sequence(seq_merge_loop(base_inner.items, overlay_inner.items, 1)))
          [] is_scalar(base_inner) /\ is_scalar(overlay_inner) -> Ok(overlay)
          [] OTHER ->
                Err("Type", <<"Type mismatch ">> \o location(path)
                              \o <<": cannot merge ", value_type_name(base_inner),
                                   " with ", value_type_name(overlay_inner)>>)

apply_policy(policy, base, overlay, path, policies) ==
    CASE policy = MergePolicy_Replace -> Ok(overlay)
      [] policy = MergePolicy_Prepend ->
            LET overlay_inner == untag(overlay)
                base_inner == untag(base)
            IN  IF base_inner.t = "sequence" /\ overlay_inner.t = "sequence"
                THEN LET result_value ==
                             Sequence(prepend_loop(overlay_inner.items,
                                                   base_inner.items, 1))
                     IN  Ok(IF overlay.t = "tagged"
                            THEN Tagged(overlay.tag, result_value)
                            ELSE result_value)
                ELSE Ok(overlay)
      [] policy = MergePolicy_Merge ->
            apply_default_merge(base, overlay, path, policies)

\* mutant: the inline directive is looked at before the policy table
merge_values_inline_first(base, overlay, path, policies) ==
    LET e == extract_merge_directive(overlay)
    IN  IF ~e.ok THEN e
        ELSE LET inline_op == e.val.op
                 stripped_overlay == e.val.value
             IN  IF inline_op.some
                 THEN LET v == validate_merge_op_for_type(inline_op.v,
                                                          stripped_overlay, path)
                      IN  IF ~v.ok THEN v
                          ELSE apply_policy(
                                   CASE inline_op.v = MergeOp_Replace -> MergePolicy_Replace
                                     [] inline_op.v = MergeOp_Append -> MergePolicy_Merge
                                     [] inline_op.v = MergeOp_Prepend -> MergePolicy_Prepend,
                                   base, stripped_overlay, path, policies)
                 ELSE IF path \in DOMAIN policies
                 THEN apply_policy(policies[path], base, stripped_overlay, path,
                                   policies)
                 ELSE apply_default_merge(base, stripped_overlay, path, policies)

\* `match op { Replace => MergePolicy::Replace, Append => MergePolicy::Merge,
\* Prepend => MergePolicy::Prepend }`
policy_of_op(op) ==
    CASE op = MergeOp_Replace -> MergePolicy_Replace
      [] op = MergeOp_Append -> MergePolicy_Merge
      [] op = MergeOp_Prepend -> MergePolicy_Prepend

\* merge_values after `let (inline_op, stripped_overlay) =
\* extract_merge_directive(overlay)?`, e being what that call returned
merge_stripped(e, base, path, policies) ==
    IF ~e.ok THEN e
    ELSE IF path \in DOMAIN policies
    THEN apply_policy(policies[path], base, e.val.value, path, policies)
    ELSE IF e.val.op.some
    THEN LET v == validate_merge_op_for_type(e.val.op.v, e.val.value, path)
         IN  IF ~v.ok THEN v
             ELSE apply_policy(policy_of_op(e.val.op.v), base, e.val.value,
                               path, policies)
    ELSE apply_default_merge(base, e.val.value, path, policies)

\* mutant: the base is searched for a merge directive as the overlay is
merge_values_base_parsed(base, overlay, path, policies) ==
    IF ~extract_merge_directive(base).ok THEN extract_merge_directive(base)
    ELSE merge_stripped(extract_merge_directive(overlay), base, path, policies)

\* policies is the HashMap<String, MergePolicy>: a function on a set of paths
merge_values(base, overlay, path, policies) ==
    merge_stripped(extract_merge_directive(overlay), base, path, policies)

\* An overlay file as apply sees it: unreadable, blank, unparsable, or a
\* document.  [name, kind, value]
overlay_load(file) ==
    CASE file.kind = "unreadable" ->
            Err("Io", <<"Failed to read '">> \o file.name \o <<"': ", "os error">>)
      [] file.kind = "blank" -> Ok(Null)
      [] file.kind = "unparsable" ->
            Err("Base", <<"Failed to parse '">> \o file.name \o <<"': ", "parse error">>)
      [] file.kind = "document" -> Ok(file.value)

\* mutant: the overlays are folded in from the last to the first
RECURSIVE apply_loop_last_first(_, _, _, _)
apply_loop_last_first(overlay_paths, i, policies, result) ==
    IF i > Len(overlay_paths) THEN Ok(result)
    ELSE LET overlay == overlay_load(overlay_paths[Len(overlay_paths) + 1 - i])
         IN  IF ~overlay.ok THEN overlay
             ELSE LET m == merge_values(result, overlay.val, <<>>, policies)
                  IN  IF ~m.ok THEN m
                      ELSE apply_loop_last_first(overlay_paths, i + 1, policies,
                                                 m.val)

RECURSIVE apply_loop(_, _, _, _)
RECURSIVE apply_loop_next(_, _, _, _)

\* `result = merge_values(&result, &overlay, "", policies)?` and the next
\* overlay, m being what merge_values returned
apply_loop_next(m, overlay_paths, i, policies) ==
    IF ~m.ok THEN m ELSE apply_loop(overlay_paths, i + 1, policies, m.val)

\* the `for overlay_path in overlay_paths` loop of apply
apply_loop(overlay_paths, i, policies, result) ==
    IF i > Len(overlay_paths) THEN Ok(result)
    ELSE LET overlay == overlay_load(overlay_paths[i])
         IN  IF ~overlay.ok THEN overlay
             ELSE apply_loop_next(merge_values(result, overlay.val, <<>>, policies),
                                  overlay_paths, i, policies)

apply(overlay_paths, policies, base) == apply_loop(overlay_paths, 1, policies, base)

(***************************************************************************)
(* Input universe: texts, tags, documents, paths and policy tables the     *)
(* operations are run on.                                                  *)
(***************************************************************************)
t_a == <<"a">>
t_a_dot_b == <<"a", ".", "b">>
t_added == <<"a", "d", "d", "e", "d">>
t_b == <<"b">>
t_blank == <<"b", "l", "a", "n", "k">>
t_c == <<"c">>
t_cfg == <<"c", "f", "g">>
t_config == <<"c", "o", "n", "f", "i", "g">>
t_d == <<"d">>
t_e == <<"e">>
t_doc1 == <<"d", "o", "c", "1">>
t_doc2 == <<"d", "o", "c", "2">>
t_doc3 == <<"d", "o", "c", "3">>
t_doc4 == <<"d", "o", "c", "4">>
t_empty == <<>>
t_existing == <<"e", "x", "i", "s", "t", "i", "n", "g">>
t_first == <<"f", "i", "r", "s", "t">>
t_host == <<"h", "o", "s", "t">>
t_inner == <<"i", "n", "n", "e", "r">>
t_item == <<"i", "t", "e", "m">>
t_items == <<"i", "t", "e", "m", "s">>
t_k == <<"k">>
t_keep == <<"k", "e", "e", "p">>
t_key == <<"k", "e", "y">>
t_localhost == <<"l", "o", "c", "a", "l", "h", "o", "s", "t">>
t_n == <<"n">>
t_nested == <<"n", "e", "s", "t", "e", "d">>
t_nested_dot_b == <<"n", "e", "s", "t", "e", "d", ".", "b">>
t_new == <<"n", "e", "w">>
t_new_key == <<"n", "e", "w", "_", "k", "e", "y">>
t_nulldoc == <<"n", "u", "l", "l", "d", "o", "c">>
t_port == <<"p", "o", "r", "t">>
t_remove == <<"r", "e", "m", "o", "v", "e">>
t_s == <<"s">>
t_simple_value == <<"s", "i", "m", "p", "l", "e", "-", "v", "a", "l", "u", "e">>
t_t == <<"t">>
t_unparsable == <<"u", "n", "p", "a", "r", "s", "a", "b", "l", "e">>
t_unreadable == <<"u", "n", "r", "e", "a", "d", "a", "b", "l", "e">>
t_v == <<"v">>
t_value == <<"v", "a", "l", "u", "e">>
t_x == <<"x">>
t_z == <<"z">>

tag_base == <<"!", "b", "a", "s", "e">>
tag_custom == <<"!", "c", "u", "s", "t", "o", "m">>
tag_custom_merge_append_padded == <<" ", "!", "c", "u", "s", "t", "o", "m", ";", "m", "e", "r", "g", "e", ":", "a", "p", "p", "e", "n", "d", " ">>
tag_custom_merge_prepend == <<"!", "c", "u", "s", "t", "o", "m", ";", "m", "e", "r", "g", "e", ":", "p", "r", "e", "p", "e", "n", "d">>
tag_custom_merge_replace == <<"!", "c", "u", "s", "t", "o", "m", ";", "m", "e", "r", "g", "e", ":", "r", "e", "p", "l", "a", "c", "e">>
tag_merge_append == <<"!", "m", "e", "r", "g", "e", ":", "a", "p", "p", "e", "n", "d">>
tag_merge_bogus == <<"!", "m", "e", "r", "g", "e", ":", "b", "o", "g", "u", "s">>
tag_merge_prepend == <<"!", "m", "e", "r", "g", "e", ":", "p", "r", "e", "p", "e", "n", "d">>
tag_merge_prepend_custom == <<"!", "m", "e", "r", "g", "e", ":", "p", "r", "e", "p", "e", "n", "d", ";", "c", "u", "s", "t", "o", "m">>
tag_merge_replace == <<"!", "m", "e", "r", "g", "e", ":", "r", "e", "p", "l", "a", "c", "e">>

\* pieces the generated tag strings are concatenated from
k_bang == <<"!">>
k_semi == <<";">>
k_open == <<"(">>
k_close == <<")">>
k_space == <<" ">>
k_merge == S_merge
k_merge_replace == S_merge \o S_replace
k_merge_append == S_merge \o S_append
k_merge_prepend == S_merge \o S_prepend
k_merge_Replace == S_merge \o <<"R", "e", "p", "l", "a", "c", "e">>

TagTokens ==
    {k_bang, k_semi, k_open, k_close, k_space, t_a, k_merge, k_merge_replace,
     k_merge_append, k_merge_prepend, k_merge_Replace}

MaxTagTokens == 4

RECURSIVE tags_upto(_)
tags_upto(n) ==
    IF n = 0 THEN {<<>>}
    ELSE LET shorter == tags_upto(n - 1)
         IN  shorter \cup {t \o k : t \in shorter, k \in TagTokens}

\* the tags of tag.rs's tests that the pieces above do not give
tag_args_merge_append == <<"!", "c", "(", "a", ";", "b", ";", "c", ")", ";">> \o k_merge_append
tag_a_merge_prepend_b == <<"!", "a", ";">> \o k_merge_prepend \o <<";", "b">>
tag_two_directives == <<"!">> \o k_merge_replace \o <<";">> \o k_merge_append
tag_merge_replace_args == <<"!">> \o k_merge_replace \o <<"(", "f", "o", "o", ")">>
tag_custom_type_merge == <<"!", "c", ";", "t", ":", "i", ";">> \o k_merge_replace

GeneratedTags ==
    tags_upto(MaxTagTokens)
    \cup {tag_base, tag_custom, tag_custom_merge_append_padded,
          tag_custom_merge_prepend, tag_custom_merge_replace, tag_merge_append,
          tag_merge_bogus, tag_merge_prepend, tag_merge_prepend_custom,
          tag_merge_replace, tag_args_merge_append, tag_a_merge_prepend_b,
          tag_two_directives, tag_merge_replace_args, tag_custom_type_merge}

\* elements the generated sequences are built from
Elems == {String(t_a), String(t_b), Tagged(tag_custom, String(t_a))}

MaxSeqLen == 3

RECURSIVE seqs_upto(_, _)
seqs_upto(S, n) ==
    IF n = 0 THEN {<<>>}
    ELSE LET shorter == seqs_upto(S, n - 1)
         IN  shorter \cup {Append(q, e) : q \in {r \in shorter : Len(r) = n - 1}, e \in S}

SeqItems == seqs_upto(Elems, MaxSeqLen)

SeqBases ==
    {Sequence(q) : q \in SeqItems} \cup {Tagged(tag_base, Sequence(q)) : q \in SeqItems}

SeqOverlays ==
    {Sequence(q) : q \in SeqItems} \cup {Tagged(tag_custom, Sequence(q)) : q \in SeqItems}

\* base documents of the merges
TreeBases == {
    Null,
    Tagged(tag_custom, Null),
    String(t_x),
    Number(1),
    Sequence(<<String(t_a), String(t_b)>>),
    Sequence(<<String(t_a), String(t_b), String(t_c)>>),
    Sequence(<<String(t_a), String(t_a), String(t_b)>>),
    Mapping(<<<<String(t_k), Number(2)>>>>),
    Mapping(<<<<String(t_keep), Number(1)>>, <<String(t_remove), Number(2)>>, <<String(t_nested), Mapping(<<<<String(t_a), Number(1)>>, <<String(t_b), Number(2)>>>>)>>>>),
    Mapping(<<<<String(t_items), Sequence(<<String(t_a), String(t_b)>>)>>>>),
    Mapping(<<<<String(t_config), String(t_simple_value)>>>>),
    Mapping(<<<<String(t_config), Mapping(<<<<String(t_host), String(t_localhost)>>>>)>>>>),
    Mapping(<<<<String(t_a), Mapping(<<<<String(t_b), String(t_x)>>>>)>>>>),
    Tagged(tag_base, Mapping(<<<<String(t_k), Number(1)>>, <<String(t_z), Number(3)>>>>)),
    Tagged(tag_base, Sequence(<<String(t_a), String(t_b)>>)),
    Mapping(<<<<String(t_existing), String(t_value)>>, <<Null, Number(7)>>, <<String(t_a_dot_b), Number(8)>>>>),
    Mapping(<<<<String(t_keep), Tagged(tag_merge_bogus, Number(1))>>, <<String(t_k), Tagged(tag_merge_replace, Sequence(<<String(t_a)>>))>>, <<String(t_nested), Tagged(tag_custom, Mapping(<<<<String(t_a), Number(1)>>>>))>>, <<String(t_z), Number(3)>>>>),
    Tagged(tag_merge_bogus, Mapping(<<<<String(t_k), Tagged(tag_two_directives, Number(1))>>, <<String(t_items), Sequence(<<Tagged(tag_merge_bogus, String(t_a))>>)>>>>))}

\* overlay values that get each of the tags of OverlayTags, and none
OverlayCores == {
    Null,
    String(t_x),
    Number(1),
    Sequence(<<String(t_x)>>),
    Sequence(<<String(t_b), String(t_d)>>),
    Sequence(<<String(t_c), String(t_b), String(t_c)>>),
    Mapping(<<<<String(t_k), Number(1)>>>>),
    Mapping(<<<<String(t_z), Null>>, <<String(t_k), Sequence(<<String(t_x)>>)>>, <<String(t_n), Number(4)>>>>)}

OverlayTags == {
    tag_custom,
    tag_merge_replace,
    tag_merge_append,
    tag_merge_prepend,
    tag_custom_merge_replace,
    tag_merge_prepend_custom,
    tag_custom_merge_append_padded,
    tag_merge_bogus}

\* overlay documents with their own structure and inner tags
OverlayTrees == {
    Mapping(<<<<String(t_remove), Null>>, <<String(t_nested), Mapping(<<<<String(t_b), Null>>>>)>>>>),
    Mapping(<<<<String(t_remove), Tagged(tag_merge_bogus, Null)>>, <<String(t_keep), Tagged(tag_custom, Null)>>, <<String(t_added), Number(3)>>>>),
    Mapping(<<<<String(t_remove), Tagged(tag_merge_bogus, Null)>>, <<String(t_nested), Tagged(tag_custom, Null)>>>>),
    Mapping(<<<<String(t_keep), Tagged(tag_custom, Null)>>, <<String(t_k), Tagged(tag_base, Null)>>>>),
    Mapping(<<<<String(t_items), Tagged(tag_merge_prepend, Sequence(<<String(t_x)>>))>>>>),
    Mapping(<<<<String(t_items), Tagged(tag_merge_replace, Mapping(<<<<String(t_k), Number(1)>>>>))>>>>),
    Mapping(<<<<String(t_config), Mapping(<<<<String(t_key), String(t_value)>>>>)>>>>),
    Mapping(<<<<String(t_config), Tagged(tag_merge_append, Mapping(<<<<String(t_port), Number(1)>>>>))>>>>),
    Mapping(<<<<String(t_config), Tagged(tag_merge_prepend, String(t_x))>>>>),
    Mapping(<<<<String(t_new), Mapping(<<<<String(t_inner), Tagged(tag_merge_replace, Sequence(<<String(t_x)>>))>>>>)>>>>),
    Mapping(<<<<String(t_new_key), Tagged(tag_custom_merge_prepend, Sequence(<<String(t_item)>>))>>>>),
    Mapping(<<<<String(t_a), Mapping(<<<<String(t_b), Sequence(<<Number(1)>>)>>>>)>>>>),
    Mapping(<<<<String(t_nested), Mapping(<<<<String(t_c), Number(3)>>, <<String(t_a), Null>>>>)>>, <<String(t_first), Number(0)>>, <<String(t_remove), Null>>, <<String(t_keep), Number(5)>>>>),
    Mapping(<<<<Null, Number(9)>>, <<String(t_a_dot_b), Sequence(<<Number(1)>>)>>>>),
    Sequence(<<Tagged(tag_merge_replace, String(t_a)), String(t_b)>>)}

TreeOverlays ==
    OverlayCores \cup OverlayTrees
        \cup {Tagged(tag, core) : tag \in OverlayTags, core \in OverlayCores}

MergePaths == {t_empty, t_cfg, t_a_dot_b}

\* policy tables (what parse_merge_policies returns)
PolicyTables == {
    <<>>,
    [p \in {t_empty} |-> MergePolicy_Replace],
    [p \in {t_empty} |-> MergePolicy_Merge],
    [p \in {t_empty} |-> MergePolicy_Prepend],
    [p \in {t_cfg, t_a_dot_b} |->
        CASE p = t_cfg -> MergePolicy_Replace [] p = t_a_dot_b -> MergePolicy_Prepend],
    [p \in {t_items, t_remove, t_nested_dot_b, t_config} |-> MergePolicy_Replace],
    [p \in {t_config, t_nested, t_items, t_a_dot_b} |->
        CASE p = t_config -> MergePolicy_Prepend [] p = t_nested -> MergePolicy_Merge [] p = t_items -> MergePolicy_Merge [] p = t_a_dot_b -> MergePolicy_Merge]}

\* documents get / set / del are run on
Roots == {
    Null,
    Mapping(<<<<String(t_a), Number(1)>>, <<String(t_b), Mapping(<<<<String(t_c), Number(2)>>>>)>>>>),
    Mapping(<<<<String(t_s), Sequence(<<Number(1), Number(2), Number(3)>>)>>, <<String(t_a), String(t_x)>>>>),
    Mapping(<<<<String(t_t), Tagged(tag_custom, Mapping(<<<<String(t_a), Number(1)>>>>))>>, <<String(t_empty), Number(5)>>>>),
    Sequence(<<Mapping(<<<<String(t_a), Number(1)>>>>), String(t_x)>>),
    String(t_x),
    Mapping(<<<<String(t_a_dot_b), Number(1)>>, <<Null, Number(2)>>, <<String(t_a), Mapping(<<<<String(t_empty), Mapping(<<<<String(t_b), Number(3)>>>>)>>>>)>>>>),
    Tagged(tag_custom, Sequence(<<Number(1), Number(2)>>)),
    Tagged(tag_custom, Null),
    Mapping(<<<<String(t_b), Sequence(<<Mapping(<<<<String(t_c), Number(1)>>>>), Sequence(<<Number(4), Number(5)>>)>>)>>>>),
    Mapping(<<>>),
    Sequence(<<>>)}

\* dot-notation paths, written out character by character
p_0 == <<>>   \* 
p_1 == <<"a">>   \* a
p_2 == <<"b", ".", "c">>   \* b.c
p_3 == <<"b", ".", "d", ".", "e">>   \* b.d.e
p_4 == <<"s", ".", "-", "1">>   \* s.-1
p_5 == <<"s", ".", "0">>   \* s.0
p_6 == <<"s", ".", "3">>   \* s.3
p_7 == <<"s", ".", "x">>   \* s.x
p_8 == <<"s", ".", "+", "1">>   \* s.+1
p_9 == <<"t", ".", "a">>   \* t.a
p_10 == <<"a", ".", ".", "b">>   \* a..b
p_11 == <<"a", "\\", ".", "b">>   \* a\.b
p_12 == <<"0", ".", "a">>   \* 0.a
p_13 == <<"-", "2", ".", "a">>   \* -2.a
p_14 == <<"b", ".", "-", "1", ".", "0">>   \* b.-1.0
p_15 == <<"b", ".", "0", ".", "c", ".", "d">>   \* b.0.c.d
p_16 == <<"x", "\\", "\\", "y", ".">>   \* x\\y.
p_17 == <<".">>   \* .
p_18 == <<"s", ".", "-", "4">>   \* s.-4
p_19 == <<"s", ".", "-", "3">>   \* s.-3
p_20 == <<"s", ".">> \o int_display(IntMin)   \* s.<the most negative integer>
p_21 == <<"a", ".", "b", "\\", ".", "c", ".", "d">>   \* a.b\.c.d
Paths == {p_0, p_1, p_2, p_3, p_4, p_5, p_6, p_7, p_8, p_9, p_10, p_11, p_12, p_13, p_14, p_15, p_16, p_17, p_18, p_19, p_20}

\* index segments resolve_index is run on: integers around both ends of the
\* signed range, signs, and texts that are no integer
IndexParts == {
    int_display(IntMin), int_display(IntMin + 1), int_display(IntMin - 1),
    int_display(IntMax), int_display(IntMax + 1),
    <<"-", "1">>, <<"-", "2">>, <<"-", "3">>, <<"-", "4">>, <<"-", "5">>,
    <<"0">>, <<"1">>, <<"2">>, <<"3">>, <<"4">>, <<"+", "1">>, <<"-", "0">>,
    <<"0", "2">>, <<"x">>, <<>>, <<"-">>, <<"1", "x">>, <<" ", "1">>,
    <<"1", ".", "0">>}

\* the characters generated paths are made of, and their longest length
PathChars == {"a", ".", "\\"}

MaxPathLen == 4

GeneratedPaths == seqs_upto(PathChars, MaxPathLen)

NewValues == {String(t_v), Mapping(<<<<String(t_k), Number(1)>>>>), Tagged(tag_custom, Sequence(<<Number(1)>>)), Null}

\* overlay files: name, what reading and parsing it gives, the document
OverlayFiles == {
    [name |-> t_blank, kind |-> "blank", value |-> Null],
    [name |-> t_nulldoc, kind |-> "document", value |-> Null],
    [name |-> t_unreadable, kind |-> "unreadable", value |-> Null],
    [name |-> t_unparsable, kind |-> "unparsable", value |-> Null],
    [name |-> t_doc1, kind |-> "document", value |-> Mapping(<<<<String(t_k), Number(1)>>, <<String(t_z), Null>>>>)],
    [name |-> t_doc2, kind |-> "document", value |-> Mapping(<<<<String(t_k), Tagged(tag_merge_replace, Sequence(<<String(t_x)>>))>>>>)],
    [name |-> t_doc3, kind |-> "document", value |-> Mapping(<<<<String(t_new), Mapping(<<<<String(t_inner), Tagged(tag_merge_replace, Sequence(<<String(t_x)>>))>>>>)>>>>)],
    [name |-> t_doc4, kind |-> "document", value |-> Mapping(<<<<String(t_items), Sequence(<<String(t_a)>>)>>, <<String(t_keep), Number(2)>>>>)]}

MaxOverlays == 2

OverlayLists == seqs_upto(OverlayFiles, MaxOverlays) \ {<<>>}

(***************************************************************************)
(* The command chain (cli/mod.rs, run_command_chain and run_single): the   *)
(* commands of a chain run one after the other on the value the previous   *)
(* one returned; the last one prints its result; a failing command ends    *)
(* the chain.                                                              *)
(***************************************************************************)
MaxCmds == 2

ChainDocs == {
    Null,
    Tagged(tag_custom, Null),
    Mapping(<<<<String(t_a), Number(1)>>, <<String(t_s), Sequence(<<Number(1), Number(2)>>)>>>>),
    Mapping(<<<<String(t_k), Number(2)>>, <<String(t_z), Number(3)>>>>),
    Sequence(<<String(t_a), String(t_b)>>),
    String(t_x)}

ChainPaths == {<<"a">>, <<"s", ".", "-", "1">>, <<"k", ".", "n">>, <<>>}

ChainValues == {String(t_v), Null}

ChainOverlayFiles == {
    [name |-> t_blank, kind |-> "blank", value |-> Null],
    [name |-> t_nulldoc, kind |-> "document", value |-> Null],
    [name |-> t_doc1, kind |-> "document", value |-> Mapping(<<<<String(t_k), Number(1)>>, <<String(t_z), Null>>>>)],
    [name |-> t_unreadable, kind |-> "unreadable", value |-> Null]}

ChainOverlayLists == seqs_upto(ChainOverlayFiles, MaxOverlays) \ {<<>>}

ChainPolicies == {
    <<>>,
    [p \in {t_empty} |-> MergePolicy_Replace],
    [p \in {t_empty} |-> MergePolicy_Merge],
    [p \in {t_empty} |-> MergePolicy_Prepend],
    [p \in {t_k} |-> MergePolicy_Replace]}

Init ==
    /\ doc \in ChainDocs
    /\ cmd = [op |-> "none"]
    /\ out = Ok(doc)
    /\ steps = 0
    /\ chain_len \in 1..MaxCmds
    /\ stdout = <<>>
    /\ overflow_checks \in BOOLEAN

\* run_command_chain runs the next command while none has failed
Running == steps < chain_len /\ out.ok

\* what run_single does once the command's function has returned r: the
\* result becomes the chain's value, the last command prints it, an error
\* propagates with `?`
Finish(c, r) ==
    /\ cmd' = c
    /\ out' = r
    /\ steps' = steps + 1
    /\ doc' = IF r.ok THEN r.val ELSE doc
    /\ stdout' = IF r.ok /\ steps + 1 = chain_len THEN Append(stdout, r.val)
                 ELSE stdout
    /\ UNCHANGED <<chain_len, overflow_checks>>

SetValue ==
    /\ Running
    /\ \E key \in ChainPaths, value \in ChainValues :
          Finish([op |-> "set-value", key |-> key, value |-> value, base |-> doc],
                 set_value(key, value, doc))

Del ==
    /\ Running
    /\ \E key \in ChainPaths :
          Finish([op |-> "del", key |-> key, base |-> doc], del(key, doc))

\* get-value with no --default: a Path error is returned as it is
GetValue ==
    /\ Running
    /\ \E path \in {None} \cup {Some(p) : p \in ChainPaths} :
          Finish([op |-> "get-value", path |-> path, base |-> doc],
                 get_value(path, doc))

Apply ==
    /\ Running
    /\ \E overlays \in ChainOverlayLists, policies \in ChainPolicies :
          Finish([op |-> "apply", overlays |-> overlays, policies |-> policies,
                  base |-> doc],
                 apply(overlays, policies, doc))

Next == SetValue \/ Del \/ GetValue \/ Apply

Spec == Init /\ [][Next]_vars

(***************************************************************************)
(* The functions on their own: one call of one function of the engine on   *)
(* inputs drawn from the input universe.                                   *)
(***************************************************************************)
PathInputs ==
    [fam : {"path"}, op : {"input"}, base : Roots, key : Paths, value : NewValues]
    \cup
    [fam : {"path"}, op : {"input"}, base : {Null, Mapping(<<>>)},
     key : GeneratedPaths, value : {String(t_v)}]

MergeInputs ==
    [fam : {"merge"}, op : {"input"}, base : SeqBases, overlay : SeqOverlays,
     path : {<<>>}, policies : {<<>>}]
    \cup
    [fam : {"merge"}, op : {"input"}, base : TreeBases, overlay : TreeOverlays,
     path : MergePaths, policies : PolicyTables]

ApplyInputs ==
    [fam : {"apply"}, op : {"input"}, base : TreeBases, overlays : OverlayLists,
     policies : PolicyTables]

IndexInputs ==
    [fam : {"index"}, op : {"input"}, part : IndexParts, len : 0..(MaxSeqLen + 1),
     full_path : {p_4}]

SplitInputs ==
    [fam : {"split"}, op : {"input"}, path : GeneratedPaths \cup Paths \cup {p_21}]

TagInputs ==
    [fam : {"tag"}, op : {"input"}, tag : GeneratedTags]

\* the lists of segments over PathChars with n characters and breaks
\* between segments at most
RECURSIVE segment_lists(_)
segment_lists(n) ==
    IF n = 0 THEN {<<<<>>>>}
    ELSE LET shorter == segment_lists(n - 1)
         IN  shorter
             \cup {[l EXCEPT ![Len(l)] = Append(l[Len(l)], c)] :
                      l \in shorter, c \in PathChars}
             \cup {Append(l, <<>>) : l \in shorter}

\* a segment as a caller writes it in a path: every '.' and every '\' of it
\* after a backslash
RECURSIVE escape_segment(_)
escape_segment(seg) ==
    IF seg = <<>> THEN <<>>
    ELSE (IF Head(seg) \in {".", "\\"} THEN <<"\\", Head(seg)>> ELSE <<Head(seg)>>)
             \o escape_segment(Tail(seg))

\* the path written for a list of segments
escaped_path(segs) ==
    join([i \in 1..Len(segs) |-> escape_segment(segs[i])], <<".">>)

SegmentInputs ==
    {[fam |-> "segments", op |-> "input", segs |-> l, path |-> escaped_path(l)] :
        l \in segment_lists(MaxPathLen)}

NotRun == [ok |-> FALSE, kind |-> "not run", msg |-> <<>>]

InitCall ==
    /\ cmd \in PathInputs \cup MergeInputs \cup ApplyInputs \cup IndexInputs
                \cup SplitInputs \cup TagInputs \cup SegmentInputs
    /\ doc = IF cmd.fam \in {"index", "split", "tag", "segments"} THEN Null
             ELSE cmd.base
    /\ out = NotRun
    /\ steps = 0
    /\ chain_len = 1
    /\ stdout = <<>>
    /\ overflow_checks \in BOOLEAN

Return(c, r) ==
    /\ cmd' = c
    /\ out' = r
    /\ steps' = 1
    /\ doc' = IF r.ok THEN r.val ELSE doc
    /\ UNCHANGED <<chain_len, stdout, overflow_checks>>

\* a call that works on no document: what it returned is held in out, a
\* plain value as Ok
ReturnValue(c, r) ==
    /\ cmd' = c
    /\ out' = r
    /\ steps' = 1
    /\ UNCHANGED <<doc, chain_len, stdout, overflow_checks>>

\* a call on `root: &mut Value`: out is the Result<(), Error> returned, doc
\* the tree the reference points to when the call returns or panics
ReturnInPlace(c, r) ==
    /\ cmd' = c
    /\ out' = r.res
    /\ steps' = 1
    /\ doc' = r.tree
    /\ UNCHANGED <<chain_len, stdout, overflow_checks>>

CallResolveIndex ==
    /\ steps = 0 /\ cmd.fam = "index"
    /\ ReturnValue([cmd EXCEPT !.op = "resolve_index"],
                   resolve_index(cmd.part, cmd.len, cmd.full_path))

CallSplitPath ==
    /\ steps = 0 /\ cmd.fam \in {"split", "segments"}
    /\ ReturnValue([cmd EXCEPT !.op = "split_path"], Ok(split_path(cmd.path)))

\* set_value's call of set_value_at_path: a Null base was replaced by an
\* empty mapping before it
CallSetValueAtPath ==
    /\ steps = 0 /\ cmd.fam = "path"
    /\ LET root == IF cmd.base = Null THEN Mapping(<<>>) ELSE cmd.base
       IN  ReturnInPlace([fam |-> "path", op |-> "set_value_at_path",
                          root |-> root, base |-> cmd.base, key |-> cmd.key,
                          value |-> cmd.value],
                         set_value_at_path(root, cmd.key, cmd.value))

\* del's call of del_at_path: a Null base has returned before it
CallDelAtPath ==
    /\ steps = 0 /\ cmd.fam = "path" /\ cmd.base # Null
    /\ ReturnInPlace([fam |-> "path", op |-> "del_at_path", root |-> cmd.base,
                      base |-> cmd.base, key |-> cmd.key, value |-> cmd.value],
                     del_at_path(cmd.base, cmd.key))

CallSetValue ==
    /\ steps = 0 /\ cmd.fam = "path"
    /\ Return([cmd EXCEPT !.op = "set_value"],
              set_value(cmd.key, cmd.value, cmd.base))

CallDel ==
    /\ steps = 0 /\ cmd.fam = "path"
    /\ Return([cmd EXCEPT !.op = "del"], del(cmd.key, cmd.base))

CallGetValue ==
    /\ steps = 0 /\ cmd.fam = "path"
    /\ Return([cmd EXCEPT !.op = "get_value"], get_value(Some(cmd.key), cmd.base))

CallMergeValues ==
    /\ steps = 0 /\ cmd.fam = "merge"
    /\ Return([cmd EXCEPT !.op = "merge_values"],
              merge_values(cmd.base, cmd.overlay, cmd.path, cmd.policies))

CallApplyPolicy ==
    /\ steps = 0 /\ cmd.fam = "merge"
    /\ \E policy \in {MergePolicy_Merge, MergePolicy_Replace, MergePolicy_Prepend} :
          Return([fam |-> "merge", op |-> "apply_policy", policy |-> policy,
                  base |-> cmd.base, overlay |-> cmd.overlay, path |-> cmd.path,
                  policies |-> cmd.policies],
                 apply_policy(policy, cmd.base, cmd.overlay, cmd.path, cmd.policies))

CallApplyDefaultMerge ==
    /\ steps = 0 /\ cmd.fam = "merge"
    /\ Return([cmd EXCEPT !.op = "apply_default_merge"],
              apply_default_merge(cmd.base, cmd.overlay, cmd.path, cmd.policies))

CallApply ==
    /\ steps = 0 /\ cmd.fam = "apply"
    /\ Return([cmd EXCEPT !.op = "apply"],
              apply(cmd.overlays, cmd.policies, cmd.base))

CallParseTag ==
    /\ steps = 0 /\ cmd.fam = "tag"
    /\ ReturnValue([cmd EXCEPT !.op = "parse_tag"], parse_tag(cmd.tag))

NextCall ==
    \/ CallResolveIndex \/ CallSplitPath \/ CallParseTag
    \/ CallSetValueAtPath \/ CallDelAtPath
    \/ CallSetValue \/ CallDel \/ CallGetValue
    \/ CallMergeValues \/ CallApplyPolicy \/ CallApplyDefaultMerge
    \/ CallApply

SpecCall == InitCall /\ [][NextCall]_vars

(***************************************************************************)
(* The command line: split_compound_args and the chain run on its groups.  *)
(***************************************************************************)
A_shyaml == <<"s", "h", "y", "a", "m", "l">>
A_semicolon == <<";">>
A_backslash_semicolon == <<"\\", ";">>
A_set_value == <<"s", "e", "t", "-", "v", "a", "l", "u", "e">>
A_del == <<"d", "e", "l">>
A_get_value == <<"g", "e", "t", "-", "v", "a", "l", "u", "e">>

\* one group pushed with the program name in front, if it is not empty
push_group(groups, program_name, current_group) ==
    IF current_group # <<>>
    THEN Append(groups, <<program_name>> \o current_group)
    ELSE groups

\* the `for arg in args.into_iter().skip(1)` loop of split_compound_args and
\* the push after it; i counts from 1
RECURSIVE split_args_loop(_, _, _, _, _)
split_args_loop(args, i, program_name, current_group, groups) ==
    IF i > Len(args)
    THEN push_group(groups, program_name, current_group)
    ELSE IF args[i] = A_semicolon
    THEN split_args_loop(args, i + 1, program_name, <<>>,
                         push_group(groups, program_name, current_group))
    ELSE split_args_loop(args, i + 1, program_name,
                         Append(current_group, args[i]), groups)

split_compound_args(args) ==
    split_args_loop(args, 2, IF args # <<>> THEN args[1] ELSE A_shyaml,
                    <<>>, <<>>)

\* mutant: every command of the chain is run as the last one
is_last_cmd_always(i, command_groups) == TRUE

\* i counts the groups from 1
is_last_cmd(i, command_groups) == i = Len(command_groups)

\* get-value's match on the result of get_value: a Path error gives the
\* DEFAULT argument, if there is one
get_value_or_default(r, words) ==
    IF r.ok THEN r
    ELSE IF r.kind = "Path" /\ Len(words) = 3 THEN Ok(String(words[3]))
    ELSE r

\* run_single without its printing: the arguments parsed by clap (a
\* subcommand word and its positional arguments) and the action's function
\* called on the value
run_single(args, value) ==
    LET words == Tail(args)
    IN  IF words = <<>> THEN Err("Cli", <<"Missing action">>)
        ELSE CASE words[1] = A_get_value /\ Len(words) <= 3 ->
                    get_value_or_default(
                        get_value(IF Len(words) >= 2 THEN Some(words[2]) ELSE None,
                                  value),
                        words)
               [] words[1] = A_set_value /\ Len(words) = 3 ->
                    set_value(words[2], String(words[3]), value)
               [] words[1] = A_del /\ Len(words) = 2 ->
                    del(words[2], value)
               [] OTHER -> Err("Cli", <<"error: invalid arguments">>)

\* pieces the command lines are concatenated from
piece_del_a == <<A_del, t_a>>
piece_set_a_v == <<A_set_value, t_a, t_v>>
piece_get_a == <<A_get_value, t_a>>
piece_get == <<A_get_value>>
piece_semicolon == <<A_semicolon>>
piece_backslash_semicolon == <<A_backslash_semicolon>>

ArgPieces ==
    {piece_del_a, piece_set_a_v, piece_get_a, piece_get, piece_semicolon,
     piece_backslash_semicolon}

MaxArgPieces == 5

RECURSIVE args_upto(_)
args_upto(n) ==
    IF n = 0 THEN {<<A_shyaml>>}
    ELSE LET shorter == args_upto(n - 1)
         IN  shorter \cup {a \o p : a \in shorter, p \in ArgPieces}

ArgLists == args_upto(MaxArgPieces)

ArgDocs == {
    Null,
    Mapping(<<<<String(t_a), Mapping(<<<<String(t_a), Number(1)>>>>)>>, <<String(t_s), Sequence(<<Number(1), Number(2)>>)>>>>),
    Mapping(<<<<String(t_k), Number(2)>>>>)}

\* the process has its arguments and one input document
InitArgs ==
    /\ doc \in ArgDocs
    /\ cmd \in [op : {"args"}, args : ArgLists, groups : {<<>>}, base : {doc}]
    /\ out = Ok(doc)
    /\ steps = 0
    /\ chain_len = 0
    /\ stdout = <<>>
    /\ overflow_checks \in BOOLEAN

\* run: the arguments are split into the command groups
SplitArgs ==
    /\ cmd.op = "args"
    /\ cmd' = [cmd EXCEPT !.op = "groups", !.groups = split_compound_args(cmd.args)]
    /\ chain_len' = Len(split_compound_args(cmd.args))
    /\ UNCHANGED <<doc, out, steps, stdout, overflow_checks>>

\* run: no group, nothing is run
NoCommand ==
    /\ cmd.op = "groups" /\ cmd.groups = <<>>
    /\ cmd' = [cmd EXCEPT !.op = "none"]
    /\ out' = Err("Cli", <<"No command provided">>)
    /\ UNCHANGED <<doc, steps, chain_len, stdout, overflow_checks>>

\* what the chain does once run_single's action has returned r: as Finish
RunFinish(r) ==
    /\ cmd' = [cmd EXCEPT !.op = "run"]
    /\ out' = r
    /\ steps' = steps + 1
    /\ doc' = IF r.ok THEN r.val ELSE doc
    /\ stdout' = IF r.ok /\ is_last_cmd(steps + 1, cmd.groups)
                 THEN Append(stdout, r.val)
                 ELSE stdout
    /\ UNCHANGED <<chain_len, overflow_checks>>

\* one turn of the loop of run_command_chain
RunSingle ==
    /\ cmd.op \in {"groups", "run"}
    /\ Running
    /\ RunFinish(run_single(cmd.groups[steps + 1], doc))

NextArgs == SplitArgs \/ NoCommand \/ RunSingle

SpecArgs == InitArgs /\ [][NextArgs]_vars

(***************************************************************************)
(* Properties                                                              *)
(***************************************************************************)
\* the keys of an IndexMap, in order
keys_of(entries) == [i \in 1..Len(entries) |-> entries[i][1]]

\* a Null, or a Null under a tag
null_or_tagged_null(v) == v = Null \/ (v.t = "tagged" /\ v.value = Null)

\* C1: whenever set_value(p, v, root) succeeds, get_value(Some(p)) on the
\* returned tree succeeds and returns exactly v.
C1_SetThenGet ==
    (cmd.op = "set_value" /\ out.ok)
        => get_value(Some(cmd.key), out.val) = Ok(cmd.value)

\* a set through auto-created mappings and an empty segment: a..b on the
\* empty document
C1_Witness ==
    /\ cmd.op = "set_value" /\ out.ok
    /\ cmd.base = Null /\ cmd.key = p_10 /\ cmd.value # Null
    /\ Len(split_path(cmd.key)) = 3

\* C2: the default merge of two sequences moves or appends each overlay
\* element: [a,b,c] with [b,d] gives [a,c,b,d], [a,b] with [c,b,c] gives
\* [a,b,c]; the base elements equal to no overlay element keep their relative
\* order and come first; a single overlay element removes the first equal
\* element and is pushed last; a non-empty overlay's last element is the last
\* of the result; on a duplicate-free base the result is the untouched base
\* elements followed by the overlay elements in the order of their last
\* occurrence.
C2_SequenceMerge ==
    (/\ cmd.op = "apply_default_merge"
     /\ untag(cmd.base).t = "sequence"
     /\ untag(cmd.overlay).t = "sequence")
    => LET B == untag(cmd.base).items
           O == untag(cmd.overlay).items
           NotInO(x) == \A j \in 1..Len(O) : O[j] # x
           lastocc[j \in 0..Len(O)] ==
               IF j = 0 THEN <<>>
               ELSE lastocc[j - 1] \o
                    (IF \E k \in (j + 1)..Len(O) : O[k] = O[j] THEN <<>> ELSE <<O[j]>>)
       IN  /\ out.ok
           /\ out.val.t = "sequence"
           /\ LET R == out.val.items
              IN  /\ SelectSeq(R, NotInO) = SelectSeq(B, NotInO)
                  /\ O # <<>> => R[Len(R)] = O[Len(O)]
                  /\ \A j \in 1..Len(O) : \E k \in 1..Len(R) : R[k] = O[j]
                  /\ (Len(O) = 1 /\ ~NotInO(O[1]) /\ \E k \in 1..Len(B) : B[k] = O[1])
                        => \E p \in 1..Len(B) :
                              /\ B[p] = O[1]
                              /\ \A q \in 1..(p - 1) : B[q] # O[1]
                              /\ R = SubSeq(B, 1, p - 1) \o SubSeq(B, p + 1, Len(B)) \o O
                  /\ (\A p, q \in 1..Len(B) : B[p] = B[q] => p = q)
                        => R = SelectSeq(B, NotInO) \o lastocc[Len(O)]
                  /\ (B = <<String(t_a), String(t_b), String(t_c)>>
                        /\ O = <<String(t_b), String(t_d)>>)
                        => R = <<String(t_a), String(t_c), String(t_b), String(t_d)>>
                  /\ (B = <<String(t_a), String(t_b)>>
                        /\ O = <<String(t_c), String(t_b), String(t_c)>>)
                        => R = <<String(t_a), String(t_b), String(t_c)>>

\* base [a,b] merged with [c,b,c]: an overlay element repeated and one shared
C2_Witness ==
    /\ cmd.op = "apply_default_merge" /\ out.ok
    /\ cmd.base = Sequence(<<String(t_a), String(t_b)>>)
    /\ cmd.overlay = Sequence(<<String(t_c), String(t_b), String(t_c)>>)
    /\ out.val = Sequence(<<String(t_a), String(t_b), String(t_c)>>)

\* C3: in a default mapping-onto-mapping merge every overlay key whose value
\* is Null or a tagged Null is absent from the result, whatever policy is
\* registered for the key's path and whatever the tag; nulls alone never make
\* the merge fail; base {keep:1, remove:2, nested:{a:1,b:2}} with overlay
\* {remove:null, nested:{b:null}} gives {keep:1, nested:{a:1}}.
C3_NullDeletesKey ==
    (/\ cmd.op = "apply_default_merge"
     /\ untag(cmd.base).t = "mapping"
     /\ untag(cmd.overlay).t = "mapping")
    => LET O == untag(cmd.overlay).entries
       IN  /\ out.ok =>
                \A i \in 1..Len(O) :
                    null_or_tagged_null(O[i][2])
                        => \A j \in 1..Len(out.val.entries) :
                              out.val.entries[j][1] # O[i][1]
           /\ (\A i \in 1..Len(O) : null_or_tagged_null(O[i][2])) => out.ok
           /\ (cmd.base = Mapping(<<<<String(t_keep), Number(1)>>, <<String(t_remove), Number(2)>>, <<String(t_nested), Mapping(<<<<String(t_a), Number(1)>>, <<String(t_b), Number(2)>>>>)>>>>)
                 /\ cmd.overlay = Mapping(<<<<String(t_remove), Null>>, <<String(t_nested), Mapping(<<<<String(t_b), Null>>>>)>>>>))
                 => out = Ok(Mapping(<<<<String(t_keep), Number(1)>>, <<String(t_nested), Mapping(<<<<String(t_a), Number(1)>>>>)>>>>))

\* a null under an unparsable merge tag deletes a base key whose path has a
\* Replace policy
C3_Witness ==
    /\ cmd.op = "apply_default_merge" /\ out.ok
    /\ cmd.path = <<>>
    /\ t_remove \in DOMAIN cmd.policies
    /\ untag(cmd.base).t = "mapping" /\ untag(cmd.overlay).t = "mapping"
    /\ \E i \in 1..Len(untag(cmd.overlay).entries) :
          /\ untag(cmd.overlay).entries[i] = <<String(t_remove), Tagged(tag_merge_bogus, Null)>>
    /\ \E i \in 1..Len(untag(cmd.base).entries) :
          untag(cmd.base).entries[i][1] = String(t_remove)
    /\ \A j \in 1..Len(out.val.entries) : out.val.entries[j][1] # String(t_remove)

\* the tags of the input universe that hold a merge directive, with the
\* directive and the tag that is left without it
DirectiveTags == {
    [tag |-> tag_merge_replace, op |-> S_replace, rest |-> None],
    [tag |-> tag_merge_append, op |-> S_append, rest |-> None],
    [tag |-> tag_merge_prepend, op |-> S_prepend, rest |-> None],
    [tag |-> tag_custom_merge_replace, op |-> S_replace, rest |-> Some(tag_custom)],
    [tag |-> tag_merge_prepend_custom, op |-> S_prepend, rest |-> Some(tag_custom)],
    [tag |-> tag_custom_merge_append_padded, op |-> S_append, rest |-> Some(tag_custom)]}

has_directive(v) == v.t = "tagged" /\ \E d \in DirectiveTags : d.tag = v.tag

directive_of(v) == CHOOSE d \in DirectiveTags : d.tag = v.tag

\* the value with the merge directive taken out of its tag
without_directive(v) ==
    IF directive_of(v).rest.some
    THEN Tagged(directive_of(v).rest.v, v.value)
    ELSE v.value

\* C4: with a policy entry for the node's path, merging an overlay that
\* carries an inline directive gives what merging the same overlay without
\* the directive gives, the directive's shape validation raises no error, and
\* items: !merge:prepend [x] on items: [a,b] under items=replace gives
\* items: [x].
C4_PolicyDominatesInline ==
    /\ (/\ cmd.op = "merge_values"
        /\ cmd.path \in DOMAIN cmd.policies
        /\ has_directive(cmd.overlay))
       => /\ out = merge_values(cmd.base, without_directive(cmd.overlay),
                                cmd.path, cmd.policies)
          /\ ~out.ok => out.msg[1] # "Invalid merge directive "
    /\ (/\ cmd.op = "merge_values"
        /\ cmd.path = <<>>
        /\ <<>> \notin DOMAIN cmd.policies
        /\ t_items \in DOMAIN cmd.policies
        /\ cmd.policies[t_items] = MergePolicy_Replace
        /\ cmd.base = Mapping(<<<<String(t_items), Sequence(<<String(t_a), String(t_b)>>)>>>>)
        /\ cmd.overlay = Mapping(<<<<String(t_items), Tagged(tag_merge_prepend, Sequence(<<String(t_x)>>))>>>>))
       => out = Ok(Mapping(<<<<String(t_items), Sequence(<<String(t_x)>>)>>>>))

\* a Replace policy at the root against an inline !merge:prepend on a mapping,
\* which the directive's validation would reject
C4_Witness ==
    /\ cmd.op = "merge_values" /\ out.ok
    /\ cmd.path = <<>> /\ <<>> \in DOMAIN cmd.policies
    /\ cmd.policies[<<>>] = MergePolicy_Replace
    /\ cmd.overlay.t = "tagged" /\ cmd.overlay.tag = tag_merge_prepend
    /\ cmd.overlay.value.t = "mapping"
    /\ cmd.base.t = "sequence"
    /\ out.val = cmd.overlay.value

\* the tag holds a part that is a merge directive
tag_has_merge_part(tag) ==
    LET trimmed == trim(tag)
        content == IF trimmed # <<>> /\ Head(trimmed) = "!" THEN Tail(trimmed)
                   ELSE trimmed
        parts == split_tag_parts(content)
    IN  \E i \in 1..Len(parts) : starts_with(parts[i], S_merge)

\* some node of the tree carries a tag with a merge directive
RECURSIVE carries_merge_directive(_)
carries_merge_directive(v) ==
    CASE v.t = "tagged" ->
            tag_has_merge_part(v.tag) \/ carries_merge_directive(v.value)
      [] v.t = "sequence" ->
            \E i \in 1..Len(v.items) : carries_merge_directive(v.items[i])
      [] v.t = "mapping" ->
            \E i \in 1..Len(v.entries) :
                \/ carries_merge_directive(v.entries[i][1])
                \/ carries_merge_directive(v.entries[i][2])
      [] OTHER -> FALSE

\* C5: after a successful apply on a base without merge directives, no node
\* of the result carries a tag with a merge: directive part.
C5_NoMergeTagInOutput ==
    (cmd.op = "apply" /\ out.ok /\ ~carries_merge_directive(cmd.base))
        => ~carries_merge_directive(out.val)

\* every overlay of the apply is a blank file or a Null document
all_overlays_null(overlays) ==
    \A i \in 1..Len(overlays) :
        \/ overlays[i].kind = "blank"
        \/ overlays[i].kind = "document" /\ overlays[i].value = Null

\* C6 as stated: apply with empty or Null overlays returns the base, for
\* every base and every policy table.
C6_NullOverlayIdentity_Original ==
    (cmd.op = "apply" /\ all_overlays_null(cmd.overlays)) => out = Ok(cmd.base)

\* C6 amended: apply with empty or Null overlays returns the base when the
\* policy table has no entry for the root path, or the entry is merge, and
\* the base is not a tagged Null; under a root entry of replace or prepend,
\* and for a tagged Null base, it returns Null.
C6_NullOverlayIdentity ==
    (cmd.op = "apply" /\ all_overlays_null(cmd.overlays))
    => IF /\ (<<>> \in DOMAIN cmd.policies
                => cmd.policies[<<>>] = MergePolicy_Merge)
          /\ ~(cmd.base.t = "tagged" /\ cmd.base.value = Null)
       THEN out = Ok(cmd.base)
       ELSE out = Ok(Null)

\* a non-Null base under a root policy of merge, two null overlays
C6_Witness ==
    /\ cmd.op = "apply" /\ out.ok
    /\ Len(cmd.overlays) = 2 /\ all_overlays_null(cmd.overlays)
    /\ cmd.overlays[1].kind = "blank" /\ cmd.overlays[2].kind = "document"
    /\ <<>> \in DOMAIN cmd.policies
    /\ cmd.base.t = "mapping"
    /\ out.val = cmd.base

\* C7 as stated: prepend on two sequences returns the overlay elements then
\* each base element exactly when it is equal to no overlay element.
C7_Prepend_Original ==
    (/\ cmd.op = "apply_policy" /\ cmd.policy = MergePolicy_Prepend
     /\ untag(cmd.base).t = "sequence" /\ untag(cmd.overlay).t = "sequence")
    => LET B == untag(cmd.base).items
           O == untag(cmd.overlay).items
           NotInO(x) == \A j \in 1..Len(O) : O[j] # x
       IN  /\ out.ok
           /\ untag(out.val) = Sequence(O \o SelectSeq(B, NotInO))

\* C7 amended: prepend on two sequences (looking through one tag layer on each
\* side) returns the overlay elements in order followed by each base element,
\* in base order, exactly when it is equal to no overlay element and to no
\* earlier base element; the result carries the overlay's tag if the overlay
\* was tagged and never the base's; if either side is not a sequence the
\* overlay is returned as is.
C7_Prepend ==
    (cmd.op = "apply_policy" /\ cmd.policy = MergePolicy_Prepend)
    => IF untag(cmd.base).t = "sequence" /\ untag(cmd.overlay).t = "sequence"
       THEN LET B == untag(cmd.base).items
                O == untag(cmd.overlay).items
                kept[i \in 0..Len(B)] ==
                    IF i = 0 THEN <<>>
                    ELSE kept[i - 1] \o
                         (IF \/ \E j \in 1..Len(O) : O[j] = B[i]
                             \/ \E j \in 1..(i - 1) : B[j] = B[i]
                          THEN <<>> ELSE <<B[i]>>)
                expected == Sequence(O \o kept[Len(B)])
            IN  out = Ok(IF cmd.overlay.t = "tagged"
                         THEN Tagged(cmd.overlay.tag, expected)
                         ELSE expected)
       ELSE out = Ok(cmd.overlay)

\* a tagged overlay prepended to a tagged base that repeats an element the
\* overlay does not hold
C7_Witness ==
    /\ cmd.op = "apply_policy" /\ cmd.policy = MergePolicy_Prepend /\ out.ok
    /\ cmd.base.t = "tagged" /\ cmd.overlay.t = "tagged"
    /\ cmd.base.value = Sequence(<<String(t_b), String(t_a), String(t_b)>>)
    /\ cmd.overlay.value = Sequence(<<String(t_a)>>)
    /\ out.val = Tagged(cmd.overlay.tag, Sequence(<<String(t_a), String(t_b)>>))

\* C8: the key sequence of a mapping merge is the base's keys in base order
\* without the keys the overlay sets to null, followed by the overlay's
\* non-null keys absent from the base, in overlay order.
C8_KeyOrder ==
    (/\ cmd.op = "apply_default_merge" /\ out.ok
     /\ untag(cmd.base).t = "mapping" /\ untag(cmd.overlay).t = "mapping")
    => LET B == untag(cmd.base).entries
           O == untag(cmd.overlay).entries
           Nulled(k) == \E i \in 1..Len(O) : O[i][1] = k /\ null_or_tagged_null(O[i][2])
           Survives(e) == ~Nulled(e[1])
           Added(e) == /\ ~null_or_tagged_null(e[2])
                       /\ \A i \in 1..Len(B) : B[i][1] # e[1]
       IN  /\ out.val.t = "mapping"
           /\ keys_of(out.val.entries)
                = keys_of(SelectSeq(B, Survives)) \o keys_of(SelectSeq(O, Added))

\* an overlay that nulls one base key, merges two others out of base order and
\* adds a new key between them
C8_Witness ==
    /\ cmd.op = "apply_default_merge" /\ out.ok
    /\ cmd.base = Mapping(<<<<String(t_keep), Number(1)>>, <<String(t_remove), Number(2)>>, <<String(t_nested), Mapping(<<<<String(t_a), Number(1)>>, <<String(t_b), Number(2)>>>>)>>>>)
    /\ cmd.overlay = Mapping(<<<<String(t_nested), Mapping(<<<<String(t_c), Number(3)>>, <<String(t_a), Null>>>>)>>, <<String(t_first), Number(0)>>, <<String(t_remove), Null>>, <<String(t_keep), Number(5)>>>>)
    /\ keys_of(out.val.entries) = <<String(t_keep), String(t_nested), String(t_first)>>

\* the text of the location a merge error names
at_root == <<"at root">>
at_path(path) == <<"at '">> \o path \o <<"'">>

\* C9: a default merge of two non-null values that are not mapping+mapping,
\* sequence+sequence or scalar+scalar fails with a Type error naming both
\* types and the location: at root, or at the '.'-joined keys from the merge
\* root.
C9_TypeMismatch ==
    /\ (/\ cmd.op = "apply_default_merge"
        /\ untag(cmd.base).t # "null" /\ untag(cmd.overlay).t # "null"
        /\ ~(untag(cmd.base).t = "mapping" /\ untag(cmd.overlay).t = "mapping")
        /\ ~(untag(cmd.base).t = "sequence" /\ untag(cmd.overlay).t = "sequence")
        /\ ~(/\ untag(cmd.base).t \in {"bool", "number", "string"}
             /\ untag(cmd.overlay).t \in {"bool", "number", "string"}))
       => /\ ~out.ok /\ out.kind = "Type"
          /\ out.msg = <<"Type mismatch ">>
                \o (IF cmd.path = <<>> THEN at_root ELSE at_path(cmd.path))
                \o <<": cannot merge ", untag(cmd.base).t, " with ",
                     untag(cmd.overlay).t>>
    /\ (/\ cmd.op = "merge_values"
        /\ cmd.path \notin DOMAIN cmd.policies
        /\ cmd.base = Mapping(<<<<String(t_config), String(t_simple_value)>>>>)
        /\ cmd.overlay = Mapping(<<<<String(t_config), Mapping(<<<<String(t_key), String(t_value)>>>>)>>>>)
        /\ (IF cmd.path = <<>> THEN t_config ELSE cmd.path \o <<".">> \o t_config)
              \notin DOMAIN cmd.policies)
       => /\ ~out.ok /\ out.kind = "Type"
          /\ contains_text(out.msg, t_config)
          /\ contains_text(out.msg,
                IF cmd.path = <<>> THEN at_path(t_config)
                ELSE at_path(cmd.path \o <<".">> \o t_config))
          /\ contains_text(out.msg, <<"string">>)
          /\ contains_text(out.msg, <<"mapping">>)
    /\ (/\ cmd.op = "merge_values"
        /\ cmd.path = <<>>
        /\ DOMAIN cmd.policies \cap {<<>>, t_a, t_a_dot_b} = {}
        /\ cmd.base = Mapping(<<<<String(t_a), Mapping(<<<<String(t_b), String(t_x)>>>>)>>>>)
        /\ cmd.overlay = Mapping(<<<<String(t_a), Mapping(<<<<String(t_b), Sequence(<<Number(1)>>)>>>>)>>>>))
       => /\ ~out.ok /\ out.kind = "Type"
          /\ contains_text(out.msg, at_path(t_a_dot_b))

\* the mismatch two levels down: a.b is a string in the base and a sequence
\* in the overlay
C9_Witness ==
    /\ cmd.op = "merge_values" /\ ~out.ok /\ out.kind = "Type"
    /\ cmd.path = <<>>
    /\ cmd.base = Mapping(<<<<String(t_a), Mapping(<<<<String(t_b), String(t_x)>>>>)>>>>)
    /\ cmd.overlay = Mapping(<<<<String(t_a), Mapping(<<<<String(t_b), Sequence(<<Number(1)>>)>>>>)>>>>)
    /\ contains_text(out.msg, at_path(t_a_dot_b))

\* C10: with no policy at the path, an inline append or prepend directive on
\* an overlay merged against a base is accepted only on a sequence (under
\* its remaining tag); on any other shape merge_values fails with a Type
\* error naming the directive, the location and the actual type; replace is
\* accepted on every shape and returns the overlay without the directive.
C10_DirectiveShape ==
    /\ (/\ cmd.op = "merge_values"
        /\ cmd.path \notin DOMAIN cmd.policies
        /\ has_directive(cmd.overlay))
       => LET d == directive_of(cmd.overlay)
          IN  IF d.op # S_replace /\ cmd.overlay.value.t # "sequence"
              THEN /\ ~out.ok /\ out.kind = "Type"
                   /\ out.msg = <<"Invalid merge directive ">>
                         \o (IF cmd.path = <<>> THEN at_root ELSE at_path(cmd.path))
                         \o <<": !merge:">> \o d.op
                         \o <<" can only be used on sequences, got ",
                              cmd.overlay.value.t>>
              ELSE /\ ~out.ok => (out.kind = "Type" /\ out.msg[1] = "Type mismatch ")
                   /\ d.op = S_replace => out = Ok(without_directive(cmd.overlay))
    /\ (/\ cmd.op = "merge_values"
        /\ cmd.path = <<>>
        /\ DOMAIN cmd.policies \cap {<<>>, t_config} = {}
        /\ cmd.base = Mapping(<<<<String(t_config), Mapping(<<<<String(t_host), String(t_localhost)>>>>)>>>>)
        /\ cmd.overlay = Mapping(<<<<String(t_config), Tagged(tag_merge_append, Mapping(<<<<String(t_port), Number(1)>>>>))>>>>))
       => /\ ~out.ok /\ out.kind = "Type"
          /\ out.msg = <<"Invalid merge directive ">> \o at_path(t_config)
                \o <<": !merge:">> \o S_append
                \o <<" can only be used on sequences, got ", "mapping">>

\* !custom;merge:append on a mapping at a path below the root: rejected,
\* naming append, the path and mapping
C10_Witness ==
    /\ cmd.op = "merge_values" /\ ~out.ok /\ out.kind = "Type"
    /\ cmd.path = t_cfg /\ cmd.path \notin DOMAIN cmd.policies
    /\ cmd.overlay.t = "tagged" /\ cmd.overlay.tag = tag_custom_merge_append_padded
    /\ cmd.overlay.value.t = "mapping"
    /\ contains_text(out.msg, S_append)
    /\ contains_text(out.msg, at_path(t_cfg))
    /\ contains_text(out.msg, <<"mapping">>)

\* the outcome of folding the first k overlays into base one after the other:
\* the first overlay that cannot be loaded or merged ends the fold
RECURSIVE fold_prefix(_, _, _, _)
fold_prefix(overlays, k, policies, base) ==
    IF k = 0 THEN Ok(base)
    ELSE LET prev == fold_prefix(overlays, k - 1, policies, base)
             o == overlay_load(overlays[k])
         IN  IF ~prev.ok THEN prev
             ELSE IF ~o.ok THEN o
             ELSE merge_values(prev.val, o.val, <<>>, policies)

\* the position of the first overlay whose load or merge fails, 0 if none does
first_failing(overlays, policies, base) ==
    IF \E k \in 1..Len(overlays) : ~fold_prefix(overlays, k, policies, base).ok
    THEN CHOOSE k \in 1..Len(overlays) :
            /\ ~fold_prefix(overlays, k, policies, base).ok
            /\ \A j \in 1..(k - 1) : fold_prefix(overlays, j, policies, base).ok
    ELSE 0

\* C11: apply returns Ok(v) only if every overlay was loaded and merged, v
\* being the left fold of the merge over the overlays in argument order; at the
\* first overlay that fails to load or to merge it returns that overlay's
\* error and no value, and no later overlay has any influence on what is
\* returned.
C11_LeftFold ==
    cmd.op = "apply" =>
        LET n == Len(cmd.overlays)
            f == first_failing(cmd.overlays, cmd.policies, cmd.base)
        IN  IF f = 0
            THEN /\ out.ok
                 /\ out = fold_prefix(cmd.overlays, n, cmd.policies, cmd.base)
            ELSE /\ ~out.ok
                 /\ "val" \notin DOMAIN out
                 /\ out = (IF ~overlay_load(cmd.overlays[f]).ok
                           THEN overlay_load(cmd.overlays[f])
                           ELSE merge_values(
                                    fold_prefix(cmd.overlays, f - 1, cmd.policies,
                                                cmd.base).val,
                                    overlay_load(cmd.overlays[f]).val, <<>>,
                                    cmd.policies))
                 /\ \A j \in (f + 1)..n : \A g \in OverlayFiles :
                        apply([cmd.overlays EXCEPT ![j] = g], cmd.policies,
                              cmd.base) = out

\* two overlay documents merged in order, where the other order gives
\* something else
C11_Witness ==
    /\ cmd.op = "apply" /\ out.ok
    /\ Len(cmd.overlays) = 2
    /\ cmd.overlays[1].kind = "document" /\ cmd.overlays[2].kind = "document"
    /\ cmd.overlays[1].value # Null /\ cmd.overlays[2].value # Null
    /\ apply(<<cmd.overlays[2], cmd.overlays[1]>>, cmd.policies, cmd.base) # out

\* a first overlay that fails with a readable second one after it: the chain
\* of merges ends there
C11_WitnessTerminal ==
    /\ cmd.op = "apply" /\ ~out.ok
    /\ Len(cmd.overlays) = 2
    /\ first_failing(cmd.overlays, cmd.policies, cmd.base) = 1
    /\ cmd.overlays[2].kind = "document"

\* a merge_values call whose overlay is tagged !custom;merge:replace
custom_replace_merge ==
    /\ cmd.op = "merge_values"
    /\ cmd.overlay.t = "tagged"
    /\ cmd.overlay.tag = tag_custom_merge_replace

C13_ResolveIndex ==
    cmd.op = "resolve_index" =>
        LET p == parse_int(cmd.part)
            n == cmd.len
        IN  IF p.some
            THEN IF -n <= p.v /\ p.v < n
                 THEN /\ out = Ok(IF p.v >= 0 THEN p.v ELSE n + p.v)
                      /\ 0 <= out.val /\ out.val < n
                 ELSE /\ ~out.ok /\ out.kind = "Path"
                      /\ contains_text(out.msg, <<"', index ">> \o int_display(p.v)
                                                   \o <<" is out of range (">>
                                                   \o nat_display(n))
            ELSE /\ ~out.ok /\ out.kind = "Path"
                 /\ contains_text(out.msg, <<"', non-integer index '">> \o cmd.part)
                 /\ contains_text(out.msg, cmd.full_path)

\* the character at i is a backslash that escapes the next character: a
\* backslash that is not itself escaped
RECURSIVE active_backslash(_, _)
active_backslash(path, i) ==
    /\ path[i] = "\\"
    /\ ~(i > 1 /\ active_backslash(path, i - 1))

\* the character at i is taken literally
is_escaped(path, i) == i > 1 /\ active_backslash(path, i - 1)

\* what the characters from i on contribute: an escaped character itself, an
\* escaping backslash nothing, an unescaped dot a segment break
RECURSIVE segment_image(_, _)
segment_image(path, i) ==
    IF i > Len(path) THEN <<>>
    ELSE (IF is_escaped(path, i) THEN <<path[i]>>
          ELSE IF path[i] = "\\" THEN <<>>
          ELSE IF path[i] = "." THEN <<"BREAK">>
          ELSE <<path[i]>>)
         \o segment_image(path, i + 1)

\* C14: split_path returns one more segment than there are dots not escaped by
\* an active backslash, so at least one segment even for the empty string; an
\* escaped dot or backslash is a literal character of its segment, an
\* unescaped trailing backslash is dropped, empty segments are kept:
\* a..b gives [a, "", b] and a.b\.c.d gives [a, b.c, d].
C14_SplitPath ==
    cmd.op = "split_path" =>
        LET path == cmd.path
            parts == out.val
        IN  /\ Len(parts) >= 1
            /\ Len(parts) = 1 + Cardinality({i \in 1..Len(path) :
                                    path[i] = "." /\ ~is_escaped(path, i)})
            /\ join(parts, <<"BREAK">>) = segment_image(path, 1)
            /\ \A k \in 1..Len(parts) : \A j \in 1..Len(parts[k]) :
                   parts[k][j] # "BREAK"
            /\ path = p_0 => parts = << <<>> >>
            /\ path = p_10 => parts = <<t_a, <<>>, t_b>>
            /\ path = p_21 => parts = <<t_a, <<"b", ".", "c">>, t_d>>

\* the path a.b\.c.d: three segments, the middle one holding a literal dot
C14_Witness ==
    /\ cmd.op = "split_path"
    /\ cmd.path = p_21
    /\ out.val = <<t_a, <<"b", ".", "c">>, t_d>>

\* escaped backslash, dropped trailing backslash and an empty segment in one
\* generated path: \\.\ gives [\, ""]
C14_WitnessBackslash ==
    /\ cmd.op = "split_path"
    /\ cmd.path = <<"\\", "\\", ".", "\\">>
    /\ out.val = << <<"\\">>, <<>> >>

\* the segment is an index of a sequence of n elements
index_in_range(part, n) ==
    /\ parse_int(part).some
    /\ -n <= parse_int(part).v
    /\ parse_int(part).v < n

\* the element of items a segment in range addresses
item_at(items, part) ==
    items[(IF parse_int(part).v >= 0 THEN parse_int(part).v
           ELSE Len(items) + parse_int(part).v) + 1]

\* walking parts from segment i at node current meets a missing mapping key, a
\* sequence index that is no integer or out of range, or a node that is
\* neither a mapping nor a sequence while a segment is still to be consumed
RECURSIVE walk_blocked(_, _, _)
walk_blocked(current, parts, i) ==
    CASE current.t = "mapping" ->
            \/ ~map_contains_key(current.entries, String(parts[i]))
            \/ /\ i < Len(parts)
               /\ walk_blocked(map_get(current.entries, String(parts[i])), parts,
                               i + 1)
      [] current.t = "sequence" ->
            \/ ~index_in_range(parts[i], Len(current.items))
            \/ /\ i < Len(parts)
               /\ walk_blocked(item_at(current.items, parts[i]), parts, i + 1)
      [] OTHER -> TRUE

\* C15: del returns a Path error and no document whenever the root is Null,
\* the path string is empty, a mapping key on the path is missing, a sequence
\* index is no integer or out of range, or the path reaches a scalar (a node
\* that is no mapping and no sequence) with a segment still to consume; in
\* every other case it succeeds.
C15_DelErrors ==
    cmd.op = "del" =>
        IF \/ cmd.base = Null
           \/ cmd.key = <<>>
           \/ walk_blocked(cmd.base, split_path(cmd.key), 1)
        THEN /\ ~out.ok
             /\ out.kind = "Path"
             /\ "val" \notin DOMAIN out
        ELSE out.ok

\* C16: set_value on an entirely empty path string fails with the Path error
\* 'Empty path', as del does, and returns no document.
C16_SetEmptyPath ==
    (cmd.op = "set_value" /\ cmd.key = <<>>)
        => /\ ~out.ok
           /\ out.kind = "Path"
           /\ out.msg = <<"Empty path">>
           /\ "val" \notin DOMAIN out

\* new is old with the element at position p taken out and the later ones
\* moved down by one
removed_at(old, new, p) ==
    /\ Len(new) = Len(old) - 1
    /\ \A j \in 1..(p - 1) : new[j] = old[j]
    /\ \A j \in p..Len(new) : new[j] = old[j + 1]

\* new is old except at position p
same_but_at(old, new, p) ==
    /\ Len(new) = Len(old)
    /\ \A j \in 1..Len(old) : j # p => new[j] = old[j]

\* the position of the entry of a mapping a segment addresses, of the element
\* of a sequence a segment in range addresses
entry_position(entries, part) ==
    CHOOSE j \in 1..Len(entries) : entries[j][1] = String(part)

item_position(items, part) ==
    (IF parse_int(part).v >= 0 THEN parse_int(part).v
     ELSE Len(items) + parse_int(part).v) + 1

\* new differs from old only by the removal of what parts addresses from
\* segment i on: the containers on the way keep their other entries and
\* their keys, the last one loses exactly the addressed entry or element
RECURSIVE del_frame(_, _, _, _)
del_frame(old, new, parts, i) ==
    CASE old.t = "mapping" ->
            /\ new.t = "mapping"
            /\ map_contains_key(old.entries, String(parts[i]))
            /\ LET p == entry_position(old.entries, parts[i])
               IN  IF i = Len(parts)
                   THEN removed_at(old.entries, new.entries, p)
                   ELSE /\ same_but_at(old.entries, new.entries, p)
                        /\ new.entries[p][1] = old.entries[p][1]
                        /\ del_frame(old.entries[p][2], new.entries[p][2], parts,
                                     i + 1)
      [] old.t = "sequence" ->
            /\ new.t = "sequence"
            /\ index_in_range(parts[i], Len(old.items))
            /\ LET p == item_position(old.items, parts[i])
               IN  IF i = Len(parts)
                   THEN removed_at(old.items, new.items, p)
                   ELSE /\ same_but_at(old.items, new.items, p)
                        /\ del_frame(old.items[p], new.items[p], parts, i + 1)
      [] OTHER -> FALSE

\* C17: a successful del changes only the addressed container: a mapping
\* loses exactly the addressed entry, its other entries keep their values and
\* order; a sequence loses exactly the element at the resolved index, the later
\* elements move down by one; every node outside that container is unchanged.
C17_DelFrame ==
    (cmd.op = "del" /\ out.ok)
        => del_frame(cmd.base, out.val, split_path(cmd.key), 1)

\* the first of three entries is deleted: the two others stay in their order
C17_Witness ==
    /\ cmd.op = "del" /\ out.ok
    /\ cmd.key = p_11
    /\ cmd.base.t = "mapping" /\ Len(cmd.base.entries) = 3
    /\ keys_of(out.val.entries) = <<Null, String(t_a)>>

\* an element below the root is deleted from a sequence: s.0 of [1, 2, 3]
C17_WitnessSequence ==
    /\ cmd.op = "del" /\ out.ok
    /\ cmd.key = p_5
    /\ get_value(Some(t_s), cmd.base) = Ok(Sequence(<<Number(1), Number(2), Number(3)>>))
    /\ get_value(Some(t_s), out.val) = Ok(Sequence(<<Number(2), Number(3)>>))

\* the single-entry mappings nested along the segments from i on, with v at
\* the innermost key
RECURSIVE nested_chain(_, _, _)
nested_chain(parts, i, v) ==
    Mapping(<< <<String(parts[i]),
                 IF i = Len(parts) THEN v ELSE nested_chain(parts, i + 1, v)>> >>)

RECURSIVE set_frame(_, _, _, _, _)
set_frame(old, new, parts, i, v) ==
    CASE old.t = "mapping" ->
            /\ new.t = "mapping"
            /\ IF map_contains_key(old.entries, String(parts[i]))
               THEN LET p == entry_position(old.entries, parts[i])
                    IN  /\ same_but_at(old.entries, new.entries, p)
                        /\ new.entries[p][1] = String(parts[i])
                        /\ IF i = Len(parts)
                           THEN new.entries[p][2] = v
                           ELSE set_frame(old.entries[p][2], new.entries[p][2],
                                          parts, i + 1, v)
               ELSE /\ Len(new.entries) = Len(old.entries) + 1
                    /\ \A j \in 1..Len(old.entries) : new.entries[j] = old.entries[j]
                    /\ new.entries[Len(new.entries)] =
                          <<String(parts[i]),
                            IF i = Len(parts) THEN v
                            ELSE nested_chain(parts, i + 1, v)>>
      [] old.t = "sequence" ->
            /\ new.t = "sequence"
            /\ index_in_range(parts[i], Len(old.items))
            /\ LET p == item_position(old.items, parts[i])
               IN  /\ same_but_at(old.items, new.items, p)
                   /\ IF i = Len(parts)
                      THEN new.items[p] = v
                      ELSE set_frame(old.items[p], new.items[p], parts, i + 1, v)
      [] OTHER -> FALSE

\* C19: a successful set changes only the addressed slot: an existing mapping
\* key gets the value and the key order is unchanged, a new key is appended
\* as the last key, a sequence index gets the value; every sequence keeps its
\* length and every entry not on the path keeps its value and position.
C19_SetFrame ==
    (cmd.op = "set_value" /\ out.ok)
        => set_frame(IF cmd.base = Null THEN Mapping(<<>>) ELSE cmd.base,
                     out.val, split_path(cmd.key), 1, cmd.value)

\* the first key of a two-key mapping is overwritten: it stays the first
C19_Witness ==
    /\ cmd.op = "set_value" /\ out.ok
    /\ cmd.key = p_1
    /\ cmd.base.t = "mapping"
    /\ keys_of(cmd.base.entries) = <<String(t_a), String(t_b)>>
    /\ keys_of(out.val.entries) = <<String(t_a), String(t_b)>>
    /\ out.val.entries[1][2] = cmd.value
    /\ cmd.base.entries[1][2] # cmd.value

\* the last element of a sequence below the root is overwritten through a
\* negative index: s.-1 of [1, 2, 3]
C19_WitnessSequence ==
    /\ cmd.op = "set_value" /\ out.ok
    /\ cmd.key = p_4
    /\ get_value(Some(t_s), cmd.base) = Ok(Sequence(<<Number(1), Number(2), Number(3)>>))
    /\ get_value(Some(t_s), out.val) = Ok(Sequence(<<Number(1), Number(2), cmd.value>>))

\* C20: whenever set_value_at_path or del_at_path returns an error, the tree
\* it was given is equal to the tree on entry; in particular set has
\* auto-created no intermediate mapping before the failure.
C20_FailureLeavesTree ==
    (cmd.op \in {"set_value_at_path", "del_at_path"}
        /\ ~out.ok /\ out.kind # "panic")
        => doc = cmd.root

\* set fails on the second segment of a..b, below the existing key a of a
\* mapping with two keys
C20_Witness ==
    /\ cmd.op = "set_value_at_path"
    /\ ~out.ok /\ out.kind = "Path"
    /\ cmd.key = p_10
    /\ cmd.root.t = "mapping"
    /\ map_get(cmd.root.entries, String(t_a)) = Number(1)
    /\ doc = cmd.root

\* del fails on the missing key d after it has walked into the mapping at b
C20_WitnessDel ==
    /\ cmd.op = "del_at_path"
    /\ ~out.ok /\ out.kind = "Path"
    /\ cmd.key = p_3
    /\ cmd.root.t = "mapping"
    /\ map_contains_key(cmd.root.entries, String(t_b))
    /\ map_get(cmd.root.entries, String(t_b)).t = "mapping"
    /\ doc = cmd.root

\* the tag as parse_tag reads it: trimmed, one leading '!' taken off
tag_content_of(tag) ==
    LET t == trim(tag)
    IN  IF t # <<>> /\ t[1] = "!" THEN Tail(t) ELSE t

\* how many '(' are open after the first i characters, a ')' with none open
\* counting for nothing
RECURSIVE open_parens(_, _)
open_parens(content, i) ==
    IF i = 0 THEN 0
    ELSE LET d == open_parens(content, i - 1)
         IN  CASE content[i] = "(" -> d + 1
               [] content[i] = ")" /\ d > 0 -> d - 1
               [] OTHER -> d

\* the positions of the ';' that stand outside parentheses
separators(content) ==
    {i \in 1..Len(content) : content[i] = ";" /\ open_parens(content, i - 1) = 0}

\* the text between the separators from position start on, every component
\* kept, the empty ones too
RECURSIVE components_from(_, _, _)
components_from(content, start, seps) ==
    LET later == {i \in seps : i >= start}
    IN  IF later = {}
        THEN <<SubSeq(content, start, Len(content))>>
        ELSE LET next == CHOOSE i \in later : \A j \in later : i <= j
             IN  <<SubSeq(content, start, next - 1)>>
                     \o components_from(content, next + 1, seps)

components(content) == components_from(content, 1, separators(content))

is_merge_component(c) == starts_with(c, S_merge)
is_other_component(c) == ~starts_with(c, S_merge)
is_kept_component(c) == c # <<>> /\ ~starts_with(c, S_merge)

\* content[j..k] is a '(' and the ')' that closes it
closes(content, j, k) ==
    LET net(m) == Cardinality({x \in j..m : content[x] = "("})
                      - Cardinality({x \in j..m : content[x] = ")"})
    IN  /\ content[j] = "(" /\ content[k] = ")"
        /\ net(k) = 0
        /\ \A m \in j..(k - 1) : net(m) >= 1

in_balanced_parens(content, i) ==
    \E j \in 1..(i - 1) : \E k \in (i + 1)..Len(content) : closes(content, j, k)

\* C21 as stated: for every tag that parses, remaining is None if and only
\* if a merge directive was the tag's only component; otherwise remaining is
\* '!' followed by all non-merge parts in their original order joined by
\* ';', so a tag with no merge directive comes back as the trimmed original
\* tag (with a leading '!') and merge_op is None.
C21_Remaining_Original ==
    (cmd.op = "parse_tag" /\ out.ok)
        => LET content == tag_content_of(cmd.tag)
               comps == components(content)
               others == SelectSeq(comps, is_other_component)
           IN  /\ (out.val.remaining = None)
                     <=> (Len(comps) = 1 /\ is_merge_component(comps[1]))
               /\ out.val.remaining # None
                     => out.val.remaining = Some(<<"!">> \o join(others, <<";">>))
               /\ others = comps
                     => /\ out.val.remaining = Some(<<"!">> \o content)
                        /\ out.val.merge_op = None

\* C21, amended: empty components (a leading, trailing or doubled ';') are
\* dropped.  For every tag that parses, remaining is None if and only if no
\* non-empty non-merge component exists; otherwise it is '!' followed by the
\* non-empty non-merge components in their order joined by ';'; merge_op is
\* None exactly when no component is a merge directive; a tag with no merge
\* directive and no empty component comes back as the trimmed tag with a
\* leading '!'.  A ';' inside balanced parentheses never splits a part.
C21_Remaining ==
    (cmd.op = "parse_tag" /\ out.ok)
        => LET content == tag_content_of(cmd.tag)
               comps == components(content)
               kept == SelectSeq(comps, is_kept_component)
               merges == SelectSeq(comps, is_merge_component)
           IN  /\ (out.val.remaining = None) <=> (kept = <<>>)
               /\ kept # <<>>
                     => out.val.remaining = Some(<<"!">> \o join(kept, <<";">>))
               /\ (out.val.merge_op = None) <=> (merges = <<>>)
               /\ (kept = comps)
                     => out.val.remaining = Some(<<"!">> \o content)
               /\ Len(split_tag_parts(content))
                     <= 1 + Cardinality({i \in 1..Len(content) :
                                            /\ content[i] = ";"
                                            /\ ~in_balanced_parens(content, i)})

\* "!a(;);merge:replace"-like case within the pieces: a ';' in parentheses
\* stays in its part and the directive after it is taken out
C21_Witness ==
    /\ cmd.op = "parse_tag" /\ out.ok
    /\ cmd.tag = tag_args_merge_append
    /\ out.val.merge_op = Some(MergeOp_Append)
    /\ out.val.remaining = Some(<<"!", "c", "(", "a", ";", "b", ";", "c", ")">>)

\* a tag with an empty component that parses: "a;;a" comes back as "!a;a"
C21_WitnessEmptyComponent ==
    /\ cmd.op = "parse_tag" /\ out.ok
    /\ cmd.tag = <<"a", ";", ";", "a">>
    /\ out.val.remaining = Some(<<"!", "a", ";", "a">>)
    /\ out.val.merge_op = None

\* what follows "merge:" in a merge part
op_text(c) == SubSeq(c, Len(S_merge) + 1, Len(c))

has_arguments(c) == \E i \in 1..Len(op_text(c)) : op_text(c)[i] = "("

\* the operation name in front of the first '('
op_before_arguments(c) ==
    LET o == op_text(c)
        first == CHOOSE i \in 1..Len(o) :
                    o[i] = "(" /\ \A j \in 1..(i - 1) : o[j] # "("
    IN  SubSeq(o, 1, first - 1)

is_valid_directive(c) ==
    is_merge_component(c) /\ op_text(c) \in {S_replace, S_append, S_prepend}

\* component i cannot be accepted: its operation carries arguments or is not
\* one of the three, or it is a valid directive after an earlier valid one
is_defect(comps, i) ==
    /\ is_merge_component(comps[i])
    /\ \/ ~is_valid_directive(comps[i])
       \/ \E j \in 1..(i - 1) : is_valid_directive(comps[j])

defect_error(c) ==
    IF has_arguments(c) THEN TagErr("UnexpectedArguments", op_before_arguments(c))
    ELSE IF ~is_valid_directive(c) THEN TagErr("UnknownOperation", op_text(c))
    ELSE TagErr("MultipleMergeDirectives", <<>>)

\* C22: a part `merge:<op>` whose <op> is not exactly replace, append or
\* prepend makes parse_tag fail with the unknown-operation error naming
\* <op>, a merge directive with parenthesised arguments with the
\* unexpected-arguments error, a second merge directive with the
\* multiple-merge-directives error (the first such part of the tag decides
\* which error is returned); so parse_tag never returns Ok, with or without
\* a merge_op, for a tag with an invalid or repeated merge part, and a tag
\* without one parses.
C22_MergePartErrors ==
    (cmd.op = "parse_tag" /\ tag_content_of(cmd.tag) # <<>>)
        => LET comps == components(tag_content_of(cmd.tag))
               defects == {i \in 1..Len(comps) : is_defect(comps, i)}
           IN  IF defects = {}
               THEN out.ok
               ELSE LET first == CHOOSE i \in defects : \A j \in defects : i <= j
                    IN  out = defect_error(comps[first])

\* "merge:Replace": the operation is case-sensitive
C22_Witness ==
    /\ cmd.op = "parse_tag"
    /\ cmd.tag = k_merge_Replace
    /\ out = TagErr("UnknownOperation", <<"R", "e", "p", "l", "a", "c", "e">>)

\* "!merge:replace(foo)"
C22_WitnessArguments ==
    /\ cmd.op = "parse_tag"
    /\ cmd.tag = tag_merge_replace_args
    /\ out = TagErr("UnexpectedArguments", S_replace)

\* "!merge:replace;merge:append"
C22_WitnessMultiple ==
    /\ cmd.op = "parse_tag"
    /\ cmd.tag = tag_two_directives
    /\ out = TagErr("MultipleMergeDirectives", <<>>)

\* every mapping of the tree v, at any depth and under any tag, has no two
\* entries with equal keys
RECURSIVE unique_keys(_)
unique_keys(v) ==
    CASE v.t = "mapping" ->
            /\ \A i, j \in 1..Len(v.entries) :
                  v.entries[i][1] = v.entries[j][1] => i = j
            /\ \A i \in 1..Len(v.entries) :
                  unique_keys(v.entries[i][1]) /\ unique_keys(v.entries[i][2])
      [] v.t = "sequence" -> \A i \in 1..Len(v.items) : unique_keys(v.items[i])
      [] v.t = "tagged" -> unique_keys(v.value)
      [] OTHER -> TRUE

RECURSIVE bare(_)
bare(v) ==
    CASE v.t = "mapping" ->
            Mapping([i \in 1..Len(v.entries) |->
                        <<v.entries[i][1], bare(v.entries[i][2])>>])
      [] v.t = "sequence" -> Sequence([i \in 1..Len(v.items) |-> bare(v.items[i])])
      [] v.t = "tagged" ->
            IF v.value.t \in {"mapping", "sequence"} THEN bare(v.value) ELSE v
      [] OTHER -> v

\* what the call does on the tree without the tags on its containers
on_bare_tree(c) ==
    CASE c.op = "get_value" -> get_value(Some(c.key), bare(c.base))
      [] c.op = "set_value" -> set_value(c.key, bare(c.value), bare(c.base))
      [] c.op = "del" -> del(c.key, bare(c.base))

\* C24: path traversal treats a Tagged node as its inner value, in get, set
\* and del alike: a path through a tagged mapping or tagged sequence
\* resolves into the inner container, so the call succeeds exactly when it
\* does on the tree without those tags, and with the same result up to them.
C24_TaggedTraversal ==
    (cmd.fam = "path" /\ cmd.op \in {"get_value", "set_value", "del"})
        => /\ out.ok <=> on_bare_tree(cmd).ok
           /\ out.ok => bare(out.val) = on_bare_tree(cmd).val

run_after(prev, group) == IF prev.ok THEN run_single(group, prev.val) ELSE prev

\* what the first k groups give on the value initial, run one after the
\* other, the first failure being kept
RECURSIVE chain_result(_, _, _)
chain_result(groups, k, initial) ==
    IF k = 0 THEN Ok(initial)
    ELSE run_after(chain_result(groups, k - 1, initial), groups[k])

\* the groups of the command line args: each non-empty run of arguments
\* between the arguments that are exactly ";", after the program name
expected_groups(args) ==
    LET seps == {i \in 2..Len(args) : args[i] = A_semicolon}
        runs == SelectSeq(components_from(args, 2, seps), LAMBDA g : g # <<>>)
    IN  [i \in 1..Len(runs) |-> <<args[1]>> \o runs[i]]

C25_WitnessFailure ==
    /\ cmd.op = "run"
    /\ cmd.args = <<A_shyaml>> \o piece_del_a \o piece_semicolon \o piece_del_a
                      \o piece_semicolon \o piece_get
    /\ cmd.base.t = "mapping" /\ map_contains_key(cmd.base.entries, String(t_a))
    /\ Len(cmd.groups) = 3 /\ steps = 2
    /\ ~out.ok
    /\ stdout = <<>>

\* "set-value a v \; del a": the argument \; separates nothing, the one
\* group is rejected
C25_WitnessBackslash ==
    /\ cmd.op = "run"
    /\ cmd.args = <<A_shyaml>> \o piece_set_a_v \o piece_backslash_semicolon
                      \o piece_del_a
    /\ Len(cmd.groups) = 1
    /\ ~out.ok /\ out.kind = "Cli"
    /\ stdout = <<>>

\* C26: a default mapping merge leaves every base entry whose key does not
\* occur in the overlay mapping unchanged: same value, tags included, and
\* the base keys that survive keep their relative order.
C26_BaseEntriesKept ==
    (/\ cmd.op = "apply_default_merge" /\ out.ok
     /\ untag(cmd.base).t = "mapping" /\ untag(cmd.overlay).t = "mapping")
        => LET b == untag(cmd.base).entries
               okeys == {e[1] : e \in {untag(cmd.overlay).entries[i] :
                                          i \in 1..Len(untag(cmd.overlay).entries)}}
           IN  /\ out.val.t = "mapping"
               /\ \A i \in 1..Len(b) :
                     b[i][1] \notin okeys
                        => /\ map_contains_key(out.val.entries, b[i][1])
                           /\ map_get(out.val.entries, b[i][1]) = b[i][2]
               /\ \A i, j \in 1..Len(b) :
                     (/\ i < j
                      /\ map_contains_key(out.val.entries, b[i][1])
                      /\ map_contains_key(out.val.entries, b[j][1]))
                        => map_position(out.val.entries, b[i][1])
                              < map_position(out.val.entries, b[j][1])

\* base {keep: !merge:bogus 1, k: .., nested: !custom {a: 1}, z: 3} under the
\* overlay {z: null, k: [x], n: 4}: keep and nested are not in the overlay
\* and come back with their tags, unparsable or not
C26_Witness ==
    /\ cmd.op = "apply_default_merge" /\ out.ok
    /\ cmd.base.t = "mapping" /\ cmd.overlay.t = "mapping"
    /\ keys_of(cmd.base.entries)
          = <<String(t_keep), String(t_k), String(t_nested), String(t_z)>>
    /\ keys_of(cmd.overlay.entries) = <<String(t_z), String(t_k), String(t_n)>>
    /\ keys_of(out.val.entries)
          = <<String(t_keep), String(t_k), String(t_nested), String(t_n)>>
    /\ map_get(out.val.entries, String(t_keep)) = Tagged(tag_merge_bogus, Number(1))
    /\ map_get(out.val.entries, String(t_nested)).t = "tagged"

\* the value v with the merge directive taken out of its outermost tag: the
\* other parts of the tag stay, a tag with no part left goes
without_merge_part(v) ==
    IF v.t # "tagged" THEN v
    ELSE LET kept == SelectSeq(components(tag_content_of(v.tag)), is_kept_component)
         IN  IF kept = <<>> THEN v.value
             ELSE Tagged(<<"!">> \o join(kept, <<";">>), v.value)

tag_parses(v) == v.t = "tagged" => parse_tag(v.tag).ok

\* C27: an overlay mapping key that the running result does not hold gets
\* its non-null value inserted with only the merge directive of its
\* outermost tag removed: whatever the policy table says for its path and
\* whatever the shape of the value (a !merge:append or !merge:prepend on a
\* non-sequence is accepted), the other tag parts kept, the rest unchanged.
C27_NewKeyInserted ==
    (/\ cmd.op = "apply_default_merge"
     /\ untag(cmd.base).t = "mapping" /\ untag(cmd.overlay).t = "mapping")
        => LET b == untag(cmd.base).entries
               o == untag(cmd.overlay).entries
               fresh == {i \in 1..Len(o) :
                            ~map_contains_key(b, o[i][1]) /\ ~is_null(o[i][2])}
           IN  /\ out.ok
                     => \A i \in fresh :
                           /\ map_contains_key(out.val.entries, o[i][1])
                           /\ map_get(out.val.entries, o[i][1])
                                 = without_merge_part(o[i][2])
               /\ (fresh = 1..Len(o) /\ \A i \in fresh : tag_parses(o[i][2]))
                     => out.ok

\* the new key config gets the string x from `config: !merge:prepend x`
\* although a string cannot be prepended and the table has a policy for
\* the path config
C27_Witness ==
    /\ cmd.op = "apply_default_merge" /\ out.ok
    /\ cmd.base.t = "mapping" /\ cmd.overlay.t = "mapping"
    /\ ~map_contains_key(cmd.base.entries, String(t_config))
    /\ cmd.overlay.entries
          = <<<<String(t_config), Tagged(tag_merge_prepend, String(t_x))>>>>
    /\ cmd.path = <<>>
    /\ t_config \in DOMAIN cmd.policies
    /\ map_get(out.val.entries, String(t_config)) = String(t_x)

\* the new key new_key gets `!custom [item]` from `!custom;merge:prepend [item]`
C27_WitnessCompound ==
    /\ cmd.op = "apply_default_merge" /\ out.ok
    /\ cmd.base.t = "mapping" /\ cmd.overlay.t = "mapping"
    /\ cmd.overlay.entries
          = <<<<String(t_new_key),
                Tagged(tag_custom_merge_prepend, Sequence(<<String(t_item)>>))>>>>
    /\ map_get(out.val.entries, String(t_new_key))
          = Tagged(tag_custom, Sequence(<<String(t_item)>>))

no_equal_elements(items) ==
    \A i, j \in 1..Len(items) : items[i] = items[j] => i = j

\* C28: the default sequence merge is idempotent on duplicate-free bases:
\* for a base sequence without equal elements and any overlay sequence,
\* merging the overlay into the result of merging it gives the same
\* sequence, and that result has no two equal elements.
C28_SequenceMergeIdempotent ==
    (/\ cmd.op = "apply_default_merge"
     /\ untag(cmd.base).t = "sequence" /\ untag(cmd.overlay).t = "sequence"
     /\ no_equal_elements(untag(cmd.base).items))
        => /\ out.ok
           /\ out.val.t = "sequence"
           /\ no_equal_elements(out.val.items)
           /\ apply_default_merge(out.val, cmd.overlay, cmd.path, cmd.policies) = out

\* base [a, b] under the overlay [b, b, a], which repeats b: the result
\* [b, a] is what merging the overlay again gives
C28_Witness ==
    /\ cmd.op = "apply_default_merge" /\ out.ok
    /\ cmd.base = Sequence(<<String(t_a), String(t_b)>>)
    /\ cmd.overlay = Sequence(<<String(t_b), String(t_b), String(t_a)>>)
    /\ out.val = Sequence(<<String(t_b), String(t_a)>>)
    /\ apply_default_merge(out.val, cmd.overlay, cmd.path, cmd.policies) = out

\* C29: split_path inverts escaping: for every non-empty list of segments
\* over characters that include '.' and '\', the path written with every
\* '.' and '\' of a segment after a backslash and the segments joined with
\* '.' is split back into exactly the list.
C29_SplitInvertsEscaping ==
    (cmd.fam = "segments" /\ cmd.op = "split_path")
        => /\ cmd.segs # <<>>
           /\ cmd.path = escaped_path(cmd.segs)
           /\ out = Ok(cmd.segs)

\* the segments "\" and "." are written \\.\. and come back
C29_Witness ==
    /\ cmd.fam = "segments" /\ cmd.op = "split_path"
    /\ cmd.segs = <<<<"\\">>, <<".">>>>
    /\ cmd.path = <<"\\", "\\", ".", "\\", ".">>
    /\ out = Ok(cmd.segs)

\* a Tagged node in the value, its mapping keys included
RECURSIVE has_tag(_)
has_tag(v) ==
    CASE v.t = "tagged" -> TRUE
      [] v.t = "sequence" -> \E i \in 1..Len(v.items) : has_tag(v.items[i])
      [] v.t = "mapping" ->
            \E i \in 1..Len(v.entries) :
                has_tag(v.entries[i][1]) \/ has_tag(v.entries[i][2])
      [] OTHER -> FALSE

\* the tag strings carried by the value's nodes
RECURSIVE tags_of(_)
tags_of(v) ==
    CASE v.t = "tagged" -> {v.tag} \cup tags_of(v.value)
      [] v.t = "sequence" -> UNION {tags_of(v.items[i]) : i \in 1..Len(v.items)}
      [] v.t = "mapping" ->
            UNION {tags_of(v.entries[i][1]) \cup tags_of(v.entries[i][2]) :
                      i \in 1..Len(v.entries)}
      [] OTHER -> {}

\* the tags of the value that parse_tag rejects
rejected_tags(v) == {t \in tags_of(v) : ~parse_tag(t).ok}

overlays_without_tags(files) == \A i \in 1..Len(files) : ~has_tag(files[i].value)

\* C30: apply never fails because of a tag carried by the base document:
\* for every base tree, whatever its tags, and every list of overlays without
\* tags, apply returns no tag-parse error; a failure is the read or parse
\* failure of one of the overlay files or a type mismatch.  This holds also
\* when the result of one overlay is the base of the next.
C30_BaseTagsNotParsed ==
    (cmd.op = "apply" /\ overlays_without_tags(cmd.overlays))
        => /\ \A t \in rejected_tags(cmd.base) :
                  out # tag_error_to_error(parse_tag(t))
           /\ \/ out.ok
              \/ out.kind = "Type"
              \/ \E i \in 1..Len(cmd.overlays) : out = overlay_load(cmd.overlays[i])

\* two overlays without tags are merged one after the other into a base whose
\* root, a value and a sequence item carry tags parse_tag rejects; the tags
\* below the root are still in the result
C30_Witness ==
    /\ cmd.op = "apply"
    /\ cmd.base = Tagged(tag_merge_bogus,
                         Mapping(<<<<String(t_k), Tagged(tag_two_directives, Number(1))>>,
                                   <<String(t_items),
                                     Sequence(<<Tagged(tag_merge_bogus, String(t_a))>>)>>>>))
    /\ Len(cmd.overlays) = 2
    /\ cmd.overlays[1].name = t_doc4 /\ cmd.overlays[2].name = t_doc1
    /\ rejected_tags(cmd.base) = {tag_merge_bogus, tag_two_directives}
    /\ out.ok
    /\ out.val = Mapping(<<<<String(t_k), Number(1)>>,
                           <<String(t_items),
                             Sequence(<<Tagged(tag_merge_bogus, String(t_a)),
                                        String(t_a)>>)>>,
                           <<String(t_keep), Number(2)>>>>)

====
